---- MODULE Spec2Model ----
(***************************************************************************)
(* Model of the DSA-Site backend: the progress ledger (UserProgress        *)
(* collection and the /api/progress handlers) and the authorization core   *)
(* (auth/admin middleware, user-management handlers, AdminLog).            *)
(*                                                                         *)
(* A handler is an async function: it is split at its awaits on the store, *)
(* one action per store round trip, so that requests interleave exactly    *)
(* where the Node event loop lets them.                                    *)
(***************************************************************************)
EXTENDS Integers, Sequences, FiniteSets, TLC

\* ------------------------------------------------------------------------
\* Bounds
\* ------------------------------------------------------------------------
MaxClock == 1        \* new Date() takes the values 0..MaxClock
MaxBatch == 2        \* longest batch body explored (the validator allows 50)
MaxDocs == 6         \* cap on the number of inserts into UserProgress
MaxMarks == 2        \* successful mark-complete responses counted per pair
MaxUpdates == 2      \* (problem, status) updates requested in one run
MaxSerial == 3       \* requests of a run whose requests are served one at a time
MaxAdminReqs == 2    \* requests to authenticated routes explored in one run
MaxLen == 3          \* longest JWT_EXPIRES_IN string explored
MaxClientReqs == 4   \* calls the web client makes in one run

\* ------------------------------------------------------------------------
\* Values
\* ------------------------------------------------------------------------
UserIds == {"u1", "u2"}
ProblemIds == {"p1", "p2"}
Slots == {1, 2}
AccountIds == UserIds \cup {"u0"}   \* u0: an _id with no User document

USER == "user"
ADMIN == "admin"
UserRole == {USER, ADMIN}

NOT_STARTED == "not_started"
COMPLETED == "completed"
ProgressStatus == {NOT_STARTED, COMPLETED}

Null == -1
NoDoc == [id |-> 0]

Updates == {[problemId |-> p, status |-> s] : p \in ProblemIds, s \in ProgressStatus}
Batches == UNION {[1..n -> Updates] : n \in 1..MaxBatch}

VARIABLES
  progress,   \* the UserProgress collection: a set of documents
  nextId,     \* the next _id the store hands out
  now,        \* the wall clock read by new Date()
  problems,   \* the Problem collection: id -> "active" | "inactive" | "missing"
  preq,       \* the /api/progress request each slot is serving
  last,       \* the response sent most recently
  marked,     \* per pair: what the first mark-complete returned, how many returned,
              \* and whether a reset found the record since
  nreq,       \* number of updates the run may still request
  users,      \* the User collection: _id -> [role, isActive]
  tokens,     \* the token each account holds (issued by login)
  demoted,    \* accounts demoted since their token was issued
  adminLog,   \* the AdminLog collection, in insertion order
  areq,       \* the request each slot is serving on an authenticated route
  alast,      \* the response sent most recently on those routes
  arid,       \* number of requests received on those routes
  jwtExpiresIn,  \* env.jwtExpiresIn, a string (sequence of characters)
  adminEmail, \* env.adminEmail: "" when ADMIN_EMAIL / ADMIN_PASSWORD are not set,
              \* otherwise the name a of the address Email(a)
  client      \* the web client of one browser tab: localStorage, the axios
              \* module state, AuthProvider and ProgressProvider state, its
              \* requests in flight and its pending timers

adminVars == <<users, tokens, demoted, adminLog, areq, alast, arid, jwtExpiresIn,
               adminEmail, client>>
vars == <<progress, nextId, now, problems, preq, last, marked, nreq,
          users, tokens, demoted, adminLog, areq, alast, arid, jwtExpiresIn,
          adminEmail, client>>

\* ------------------------------------------------------------------------
\* UserProgress model
\* ------------------------------------------------------------------------
\* A filter that selects by problem alone.
Matching_AnyUser(docs, u, p) == {d \in docs : d.problemId = p}

\* The documents selected by the filter {userId, problemId}.
Matching(docs, u, p) == {d \in docs : d.userId = u /\ d.problemId = p}

\* The non-unique variant of the compound index: no insert is ever refused.
uniqueIndex_NotUnique(docs, u, p) == FALSE

\* userProgressSchema.index({userId: 1, problemId: 1}, {unique: true}):
\* TRUE when inserting a document for (u, p) would violate the index.
uniqueIndex(docs, u, p) == Matching(docs, u, p) # {}

\* A match half that replaces the matched document by a new one (delete and
\* insert) instead of modifying it in place.
findOneAndUpdate_Replace(docs, nid, u, p, st, at) ==
  LET m == Matching(docs, u, p) IN
  IF m = {}
  THEN [docs |-> docs, doc |-> NoDoc, nextId |-> nid, found |-> FALSE]
  ELSE LET d == CHOOSE x \in m : \A y \in m : x.id <= y.id
           d2 == [d EXCEPT !.id = nid, !.status = st, !.completedAt = at]
       IN [docs |-> (docs \ {d}) \cup {d2}, doc |-> d2, nextId |-> nid + 1,
           found |-> TRUE]

\* The match-and-modify half of findOneAndUpdate(filter, update, {new: true}):
\* atomic on the matched document, which keeps its _id; the updated document
\* is returned.  found = FALSE when nothing matched.
findOneAndUpdate(docs, nid, u, p, st, at) ==
  LET m == Matching(docs, u, p) IN
  IF m = {}
  THEN [docs |-> docs, doc |-> NoDoc, nextId |-> nid, found |-> FALSE]
  ELSE LET d == CHOOSE x \in m : \A y \in m : x.id <= y.id
           d2 == [d EXCEPT !.status = st, !.completedAt = at]
       IN [docs |-> (docs \ {d}) \cup {d2}, doc |-> d2, nextId |-> nid,
           found |-> TRUE]

\* An upsert whose insert surfaces the duplicate-key error instead of being
\* retried as an update.
upsertInsert_NoRetry(docs, nid, u, p, st, at) ==
  IF uniqueIndex(docs, u, p)
  THEN [docs |-> docs, doc |-> NoDoc, nextId |-> nid, outcome |-> "E11000"]
  ELSE LET d == [id |-> nid, userId |-> u, problemId |-> p,
                 status |-> st, completedAt |-> at]
       IN [docs |-> docs \cup {d}, doc |-> d, nextId |-> nid + 1, outcome |-> "ok"]

\* The insert half of findOneAndUpdate(..., {upsert: true}) after the match
\* found nothing.  The insert is checked against the unique index; when a
\* concurrent upsert inserted the pair first, the store retries the whole
\* operation as an update (upsert-on-conflict).
upsertInsert(docs, nid, u, p, st, at) ==
  IF uniqueIndex(docs, u, p)
  THEN [docs |-> docs, doc |-> NoDoc, nextId |-> nid, outcome |-> "retry"]
  ELSE LET d == [id |-> nid, userId |-> u, problemId |-> p,
                 status |-> st, completedAt |-> at]
       IN [docs |-> docs \cup {d}, doc |-> d, nextId |-> nid + 1, outcome |-> "ok"]

\* UserProgress.markCompleted: the update it sends to the store.
markCompleted(t) == [status |-> COMPLETED, completedAt |-> t]

\* A reset that removes the record (row removal instead of a status
\* transition).
UserProgress_resetProgress_Delete(docs, nid, u, p) ==
  LET res == findOneAndUpdate(docs, nid, u, p, NOT_STARTED, Null) IN
  IF res.found THEN [res EXCEPT !.docs = docs \ Matching(docs, u, p)] ELSE res

\* A reset that upserts: it creates a not_started record when none exists.
UserProgress_resetProgress_Upsert(docs, nid, u, p) ==
  LET res == findOneAndUpdate(docs, nid, u, p, NOT_STARTED, Null) IN
  IF res.found THEN res
  ELSE LET d == [id |-> nid, userId |-> u, problemId |-> p,
                 status |-> NOT_STARTED, completedAt |-> Null]
       IN [docs |-> docs \cup {d}, doc |-> d, nextId |-> nid + 1, found |-> TRUE]

\* UserProgress.resetProgress: findOneAndUpdate without upsert; null when no
\* record matches.
UserProgress_resetProgress(docs, nid, u, p) ==
  findOneAndUpdate(docs, nid, u, p, NOT_STARTED, Null)

\* An update to not_started that leaves a timestamp in completedAt.
updateFor_KeepCompletedAt(st, t) == [status |-> st, completedAt |-> t]

\* The update of one (problemId, status) item, as updateProgress and
\* batchUpdateProgress build it.
updateFor(st, t) ==
  IF st = COMPLETED THEN markCompleted(t)
  ELSE [status |-> st, completedAt |-> Null]

\* handleDuplicateKeyError: code 11000 becomes 409 Conflict.
handleDuplicateKeyError == 409

\* ------------------------------------------------------------------------
\* /api/progress handlers (all mounted behind authMiddleware; req.user is
\* the caller's account and userId is always req.user._id)
\* ------------------------------------------------------------------------
IdleReq ==
  [pc |-> "idle", kind |-> "none", userId |-> "none", updates |-> <<>>,
   at |-> Null, pending |-> {}, inserting |-> {}, raced |-> FALSE]

NoResponse ==
  [kind |-> "none", userId |-> "none", updates |-> <<>>, raced |-> FALSE,
   status |-> 0, message |-> "", doc |-> NoDoc, nth |-> 0]

\* Slot r takes the next request, which carries n updates: requests are
\* served by the lowest idle slot.
Free(r, n) ==
  /\ preq[r].pc = "idle"
  /\ \A o \in Slots : preq[o].pc = "idle" => o >= r
  /\ n <= nreq

\* ApiResponse.success / the error middleware: the response to request q.
Respond(q, code, msg, d) ==
  [kind |-> q.kind, userId |-> q.userId, updates |-> q.updates,
   raced |-> q.raced, status |-> code, message |-> msg, doc |-> d,
   nth |-> IF q.kind = "markComplete" /\ code = 200
           THEN marked[<<q.userId, q.updates[1].problemId>>].n + 1 ELSE 0]

\* Bookkeeping of the mark-complete responses of a pair.
Mark(m, kind, u, p, d) ==
  IF kind # "markComplete" THEN m
  ELSE [m EXCEPT ![<<u, p>>] = [id |-> IF @.n = 0 THEN d.id ELSE @.id,
                                at |-> IF @.n = 0 THEN d.completedAt ELSE @.at,
                                n |-> IF @.n < MaxMarks THEN @.n + 1 ELSE @.n,
                                reset |-> @.reset]]

\* Another slot is serving a request of the same kind on the same pair.
Overlaps(o, kind, u, p) ==
  /\ preq[o].pc \in {"write", "insert"}
  /\ preq[o].kind = kind
  /\ preq[o].userId = u
  /\ preq[o].updates[1].problemId = p

\* A request of `kind` on one problem enters slot r: Problem.findById and
\* the isActive check, then the update is built (new Date() is read here).
SingleFind(r, kind, u, p, st) ==
  /\ Free(r, 1)
  /\ nreq' = nreq - 1
  /\ LET q == [IdleReq EXCEPT !.kind = kind, !.userId = u,
                 !.updates = <<[problemId |-> p, status |-> st]>>]
     IN IF problems[p] # "active"
        THEN /\ last' = Respond(q, 404, "Problem not found", NoDoc)
             /\ UNCHANGED preq
        ELSE /\ preq' = [o \in Slots |->
                  IF o = r
                  THEN [q EXCEPT !.pc = "write",
                                 !.at = updateFor(st, now).completedAt,
                                 !.raced = \E x \in Slots \ {r} : Overlaps(x, kind, u, p)]
                  ELSE IF Overlaps(o, kind, u, p)
                       THEN [preq[o] EXCEPT !.raced = TRUE]
                       ELSE preq[o]]
             /\ UNCHANGED last
  /\ UNCHANGED <<progress, nextId, now, problems, marked>>
  /\ UNCHANGED adminVars

\* The store runs the match half of the upsert of slot r.
SingleWrite(r, kind, msg) ==
  /\ preq[r].pc = "write" /\ preq[r].kind = kind
  /\ LET q == preq[r]
         up == q.updates[1]
         res == findOneAndUpdate(progress, nextId, q.userId, up.problemId,
                                 up.status, q.at)
     IN IF res.found
        THEN /\ progress' = res.docs
             /\ nextId' = res.nextId
             /\ preq' = [preq EXCEPT ![r] = IdleReq]
             /\ last' = Respond(q, 200, msg, res.doc)
             /\ marked' = Mark(marked, kind, q.userId, up.problemId, res.doc)
        ELSE /\ preq' = [preq EXCEPT ![r].pc = "insert"]
             /\ UNCHANGED <<progress, nextId, last, marked>>
  /\ UNCHANGED <<now, problems, nreq>>
  /\ UNCHANGED adminVars

\* The store runs the insert half of the upsert of slot r.
SingleInsert(r, kind, msg) ==
  /\ preq[r].pc = "insert" /\ preq[r].kind = kind
  /\ nextId <= MaxDocs
  /\ LET q == preq[r]
         up == q.updates[1]
         res == upsertInsert(progress, nextId, q.userId, up.problemId, up.status, q.at)
     IN CASE res.outcome = "ok" ->
               /\ progress' = res.docs
               /\ nextId' = res.nextId
               /\ preq' = [preq EXCEPT ![r] = IdleReq]
               /\ last' = Respond(q, 200, msg, res.doc)
               /\ marked' = Mark(marked, kind, q.userId, up.problemId, res.doc)
          [] res.outcome = "retry" ->
               /\ preq' = [preq EXCEPT ![r].pc = "write"]
               /\ UNCHANGED <<progress, nextId, last, marked>>
          [] OTHER ->
               /\ preq' = [preq EXCEPT ![r] = IdleReq]
               /\ last' = Respond(q, handleDuplicateKeyError, "already exists", NoDoc)
               /\ UNCHANGED <<progress, nextId, marked>>
  /\ UNCHANGED <<now, problems, nreq>>
  /\ UNCHANGED adminVars

\* POST /api/progress/:problemId/complete
markComplete_findById(r, u, p) == SingleFind(r, "markComplete", u, p, COMPLETED)
markComplete_markCompleted(r) == SingleWrite(r, "markComplete", "Problem marked as completed")
markComplete_upsert(r) == SingleInsert(r, "markComplete", "Problem marked as completed")

\* PUT /api/progress/:problemId
updateProgress_findById(r, u, p, st) == SingleFind(r, "updateProgress", u, p, st)
updateProgress_findOneAndUpdate(r) == SingleWrite(r, "updateProgress", "Progress updated successfully")
updateProgress_upsert(r) == SingleInsert(r, "updateProgress", "Progress updated successfully")

\* DELETE /api/progress/:problemId
resetProgress(r, u, p) ==
  /\ Free(r, 1)
  /\ nreq' = nreq - 1
  /\ LET res == UserProgress_resetProgress(progress, nextId, u, p)
         q == [IdleReq EXCEPT !.kind = "resetProgress", !.userId = u,
                 !.updates = <<[problemId |-> p, status |-> NOT_STARTED]>>]
     IN /\ progress' = res.docs
        /\ nextId' = res.nextId
        /\ last' = IF ~res.found
                   THEN Respond(q, 200, "No progress to reset", NoDoc)
                   ELSE Respond(q, 200, "Progress reset successfully", res.doc)
        /\ marked' = IF res.found /\ marked[<<u, p>>].n > 0
                     THEN [marked EXCEPT ![<<u, p>>].reset = TRUE]
                     ELSE marked
  /\ UNCHANGED <<now, problems, preq>>
  /\ UNCHANGED adminVars

\* A lookup that also returns retired problems.
Problem_find_AnyStatus(problemIds) ==
  {p \in ProblemIds : /\ \E i \in DOMAIN problemIds : problemIds[i] = p
                       /\ problems[p] # "missing"}

\* Problem.find({_id: {$in: problemIds}, isActive: true}).
Problem_find(problemIds) ==
  {p \in ProblemIds : /\ \E i \in DOMAIN problemIds : problemIds[i] = p
                       /\ problems[p] = "active"}

\* POST /api/progress/batch: the lookup of the referenced problems and the
\* length comparison.
batchUpdateProgress_find(r, u, updates) ==
  /\ Free(r, Len(updates))
  /\ nreq' = nreq - Len(updates)
  /\ LET problemIds == [i \in DOMAIN updates |-> updates[i].problemId]
         found == Problem_find(problemIds)
         q == [IdleReq EXCEPT !.kind = "batchUpdateProgress", !.userId = u,
                 !.updates = updates]
     IN IF Cardinality(found) # Len(problemIds)
        THEN /\ last' = Respond(q, 400, "One or more problems not found", NoDoc)
             /\ UNCHANGED preq
        ELSE /\ preq' = [preq EXCEPT ![r] =
                  [q EXCEPT !.pc = "batch", !.at = now, !.pending = DOMAIN updates]]
             /\ UNCHANGED last
  /\ UNCHANGED <<progress, nextId, now, problems, marked>>
  /\ UNCHANGED adminVars

\* One of the upserts started by Promise.all reaches the store (match half).
batchUpdateProgress_update(r, i) ==
  /\ preq[r].pc = "batch"
  /\ i \in preq[r].pending \ preq[r].inserting
  /\ LET q == preq[r]
         up == q.updates[i]
         upd == updateFor(up.status, q.at)
         res == findOneAndUpdate(progress, nextId, q.userId, up.problemId,
                                 upd.status, upd.completedAt)
     IN IF res.found
        THEN /\ progress' = res.docs
             /\ nextId' = res.nextId
             /\ preq' = [preq EXCEPT ![r].pending = @ \ {i}]
        ELSE /\ preq' = [preq EXCEPT ![r].inserting = @ \cup {i}]
             /\ UNCHANGED <<progress, nextId>>
  /\ UNCHANGED <<now, problems, last, marked, nreq>>
  /\ UNCHANGED adminVars

\* The insert half of one of the batch's upserts.
batchUpdateProgress_upsert(r, i) ==
  /\ preq[r].pc = "batch"
  /\ i \in preq[r].inserting
  /\ nextId <= MaxDocs
  /\ LET q == preq[r]
         up == q.updates[i]
         upd == updateFor(up.status, q.at)
         res == upsertInsert(progress, nextId, q.userId, up.problemId,
                             upd.status, upd.completedAt)
     IN CASE res.outcome = "ok" ->
               /\ progress' = res.docs
               /\ nextId' = res.nextId
               /\ preq' = [preq EXCEPT ![r].pending = @ \ {i},
                                       ![r].inserting = @ \ {i}]
               /\ UNCHANGED last
          [] res.outcome = "retry" ->
               /\ preq' = [preq EXCEPT ![r].inserting = @ \ {i}]
               /\ UNCHANGED <<progress, nextId, last>>
          [] OTHER ->
               /\ preq' = [preq EXCEPT ![r] = IdleReq]
               /\ last' = Respond(q, handleDuplicateKeyError, "already exists", NoDoc)
               /\ UNCHANGED <<progress, nextId>>
  /\ UNCHANGED <<now, problems, marked, nreq>>
  /\ UNCHANGED adminVars

\* Promise.all resolved: the batch answers.
batchUpdateProgress_respond(r) ==
  /\ preq[r].pc = "batch"
  /\ preq[r].pending = {}
  /\ preq' = [preq EXCEPT ![r] = IdleReq]
  /\ last' = Respond(preq[r], 200, "Updated progress", NoDoc)
  /\ UNCHANGED <<progress, nextId, now, problems, marked, nreq>>
  /\ UNCHANGED adminVars

\* Time passes.
Tick ==
  /\ now < MaxClock
  /\ now' = now + 1
  /\ UNCHANGED <<progress, nextId, problems, preq, last, marked, nreq>>
  /\ UNCHANGED adminVars

\* ------------------------------------------------------------------------
\* Tokens (the clock counts seconds, as the iat and exp claims do)
\* ------------------------------------------------------------------------
\* The characters the explored JWT_EXPIRES_IN strings are made of; "x"
\* stands for any character that is neither a digit nor a unit.
Chars == {"0", "1", "d", "h", "m", "s", "x"}
Strings == UNION {[1..n -> Chars] : n \in 0..MaxLen}

\* jwtExpiresIn: process.env.JWT_EXPIRES_IN || '7d'
env_jwtExpiresIn(v) == IF v = <<>> THEN <<"7", "d">> ELSE v

Digits == {"0", "1", "2", "3", "4", "5", "6", "7", "8", "9"}
DigitValue(c) ==
  CASE c = "0" -> 0 [] c = "1" -> 1 [] c = "2" -> 2 [] c = "3" -> 3
    [] c = "4" -> 4 [] c = "5" -> 5 [] c = "6" -> 6 [] c = "7" -> 7
    [] c = "8" -> 8 [] c = "9" -> 9

\* parseInt(digits, 10) on a non-empty string of decimal digits.
RECURSIVE parseInt(_)
parseInt(ds) ==
  IF ds = <<>> THEN 0
  ELSE 10 * parseInt(SubSeq(ds, 1, Len(ds) - 1)) + DigitValue(ds[Len(ds)])

\* timeStr.match(/^(\d+)([dhms])$/)
DurationMatch(timeStr) ==
  /\ Len(timeStr) >= 2
  /\ \A i \in 1..(Len(timeStr) - 1) : timeStr[i] \in Digits
  /\ timeStr[Len(timeStr)] \in {"d", "h", "m", "s"}

\* A conversion that yields 0 seconds when the string does not match.
parseTimeToSeconds_NoDefault(timeStr) ==
  IF ~DurationMatch(timeStr) THEN 0
  ELSE LET value == parseInt(SubSeq(timeStr, 1, Len(timeStr) - 1))
           unit == timeStr[Len(timeStr)]
       IN CASE unit = "d" -> value * 24 * 60 * 60
            [] unit = "h" -> value * 60 * 60
            [] unit = "m" -> value * 60
            [] unit = "s" -> value

\* parseTimeToSeconds: '7d', '24h', '30m', '60s' to seconds; 7 days for a
\* string that does not match.
parseTimeToSeconds(timeStr) ==
  IF ~DurationMatch(timeStr) THEN 7 * 24 * 60 * 60
  ELSE LET value == parseInt(SubSeq(timeStr, 1, Len(timeStr) - 1))
           unit == timeStr[Len(timeStr)]
       IN CASE unit = "d" -> value * 24 * 60 * 60
            [] unit = "h" -> value * 60 * 60
            [] unit = "m" -> value * 60
            [] unit = "s" -> value

\* The email and the stored password hash of account a.
Email(a) == <<"email", a>>
PasswordHash(a) == <<"bcrypt", a>>

NoToken == [userId |-> "none"]
Absent == [userId |-> "absent"]         \* no Authorization header
Malformed == [userId |-> "malformed"]   \* a bearer string that does not verify
NoUser == [id |-> "none"]

\* What a request can put in its Authorization header: nothing, a string
\* that does not verify, or a token some account holds.
Credentials ==
  {Absent, Malformed} \cup {tokens[a] : a \in {x \in DOMAIN tokens : tokens[x] # NoToken}}

\* A token whose payload is the whole account document as login loaded it.
generateToken_WholeUser(userId, email, role) ==
  [userId |-> userId, email |-> email, role |-> role,
   passwordHash |-> PasswordHash(userId),
   iat |-> now, exp |-> now + parseTimeToSeconds(jwtExpiresIn)]

\* generateToken: jwt.sign({userId, email, role}, secret, {expiresIn:
\* expiresInSeconds}); the signature adds iat and exp.
generateToken(userId, email, role) ==
  [userId |-> userId, email |-> email, role |-> role,
   iat |-> now, exp |-> now + parseTimeToSeconds(jwtExpiresIn)]

\* A verification that still accepts a token at the second it expires.
jwt_verify_Inclusive(token) ==
  IF token = Malformed THEN [ok |-> FALSE, error |-> "JsonWebTokenError"]
  ELSE IF now > token.exp THEN [ok |-> FALSE, error |-> "TokenExpiredError"]
  ELSE [ok |-> TRUE, decoded |-> token]

\* jwt.verify(token, secret): the payload, or the error it throws.
jwt_verify(token) ==
  IF token = Malformed THEN [ok |-> FALSE, error |-> "JsonWebTokenError"]
  ELSE IF now >= token.exp THEN [ok |-> FALSE, error |-> "TokenExpiredError"]
  ELSE [ok |-> TRUE, decoded |-> token]

\* User.findById: the document as a request sees it, or NoUser (null).
User_findById(id) ==
  IF id \in DOMAIN users
  THEN [id |-> id, role |-> users[id].role, isActive |-> users[id].isActive]
  ELSE NoUser

\* ------------------------------------------------------------------------
\* Middleware
\* ------------------------------------------------------------------------
\* An authentication gate that lets deactivated accounts through.
authMiddleware_NoActiveCheck(cred) ==
  IF cred = Absent
  THEN [status |-> 401, message |-> "Authentication required. Please provide a valid token.", user |-> NoUser]
  ELSE LET v == jwt_verify(cred) IN
    IF ~v.ok
    THEN [status |-> 401,
          message |-> IF v.error = "TokenExpiredError"
                      THEN "Token has expired. Please login again."
                      ELSE "Invalid token. Please login again.",
          user |-> NoUser]
    ELSE LET user == User_findById(v.decoded.userId) IN
      IF user = NoUser
      THEN [status |-> 401, message |-> "User no longer exists. Please register again.", user |-> NoUser]
      ELSE [status |-> 0, message |-> "", user |-> user]

\* authMiddleware: header, jwt.verify, User.findById(decoded.userId), the
\* existence and isActive checks; status 0 stands for next() with req.user.
authMiddleware(cred) ==
  IF cred = Absent
  THEN [status |-> 401, message |-> "Authentication required. Please provide a valid token.", user |-> NoUser]
  ELSE LET v == jwt_verify(cred) IN
    IF ~v.ok
    THEN [status |-> 401,
          message |-> IF v.error = "TokenExpiredError"
                      THEN "Token has expired. Please login again."
                      ELSE "Invalid token. Please login again.",
          user |-> NoUser]
    ELSE LET user == User_findById(v.decoded.userId) IN
      IF user = NoUser
      THEN [status |-> 401, message |-> "User no longer exists. Please register again.", user |-> NoUser]
      ELSE IF ~user.isActive
      THEN [status |-> 401, message |-> "Your account has been deactivated. Please contact support.", user |-> NoUser]
      ELSE [status |-> 0, message |-> "", user |-> user]

\* An admin gate that trusts the role claim of the token.
adminMiddleware_TokenRole(cred, user) ==
  IF user = NoUser
  THEN [status |-> 401, message |-> "Authentication required. Please login to access this resource."]
  ELSE IF cred.role # ADMIN
  THEN [status |-> 403, message |-> "Access denied. Administrator privileges required."]
  ELSE [status |-> 0, message |-> ""]

\* An admin gate that answers a role mismatch with 401.
adminMiddleware_Unauthorized(cred, user) ==
  IF user = NoUser
  THEN [status |-> 401, message |-> "Authentication required. Please login to access this resource."]
  ELSE IF user.role # ADMIN
  THEN [status |-> 401, message |-> "Access denied. Administrator privileges required."]
  ELSE [status |-> 0, message |-> ""]

\* adminMiddleware on a request whose header is cred and whose req.user is
\* user: only req.user is consulted.
adminMiddleware(cred, user) ==
  IF user = NoUser
  THEN [status |-> 401, message |-> "Authentication required. Please login to access this resource."]
  ELSE IF user.role # ADMIN
  THEN [status |-> 403, message |-> "Access denied. Administrator privileges required."]
  ELSE [status |-> 0, message |-> ""]

\* An optional gate that rejects like authMiddleware does.
optionalAuthMiddleware_Strict(cred, findOk) ==
  LET a == authMiddleware(cred) IN
  [status |-> a.status, nexts |-> IF a.status = 0 THEN 1 ELSE 0, user |-> a.user]

\* optionalAuthMiddleware: next() without a user when there is no bearer
\* token; otherwise jwt.verify and User.findById run inside try/catch (findOk
\* = FALSE: the lookup rejects), req.user is set only for an existing active
\* account, and next() is called once at the end.
optionalAuthMiddleware(cred, findOk) ==
  IF cred = Absent THEN [status |-> 0, nexts |-> 1, user |-> NoUser]
  ELSE LET v == jwt_verify(cred) IN
    IF ~v.ok \/ ~findOk THEN [status |-> 0, nexts |-> 1, user |-> NoUser]
    ELSE LET user == User_findById(v.decoded.userId) IN
      IF user # NoUser /\ user.isActive
      THEN [status |-> 0, nexts |-> 1, user |-> user]
      ELSE [status |-> 0, nexts |-> 1, user |-> NoUser]

\* errorMiddleware: the status sent for an error that is not an ApiError.
errorMiddleware(err) ==
  IF err = "E11000" THEN handleDuplicateKeyError ELSE 500

\* ------------------------------------------------------------------------
\* AdminLog model
\* ------------------------------------------------------------------------
\* A logAction that keeps one entry per entity: it overwrites the entry the
\* entity already has.
logAction_Overwrite(log, rid, adminId, actionType, entityId, entityType) ==
  LET e == [rid |-> rid, adminId |-> adminId, actionType |-> actionType,
            entityId |-> entityId, entityType |-> entityType]
  IN IF \E i \in DOMAIN log : log[i].entityId = entityId
     THEN [i \in DOMAIN log |-> IF log[i].entityId = entityId THEN e ELSE log[i]]
     ELSE Append(log, e)

\* A logAction that records the affected entity as the actor.
logAction_Swapped(log, rid, adminId, actionType, entityId, entityType) ==
  Append(log, [rid |-> rid, adminId |-> entityId, actionType |-> actionType,
               entityId |-> adminId, entityType |-> entityType])

\* AdminLog.logAction: this.create({adminId, actionType, entityId,
\* entityType, ...}).  rid names the request that made the call.
logAction(log, rid, adminId, actionType, entityId, entityType) ==
  Append(log, [rid |-> rid, adminId |-> adminId, actionType |-> actionType,
               entityId |-> entityId, entityType |-> entityType])

\* ------------------------------------------------------------------------
\* Privileged handlers (mounted behind requireAdmin) and GET /api/auth/me
\* (behind authMiddleware only)
\* ------------------------------------------------------------------------
UserKinds == {"promoteUser", "demoteUser", "deactivateUser", "activateUser"}
AdminKinds == UserKinds \cup {"deleteProblem"}

IdleAdminReq ==
  [pc |-> "idle", kind |-> "none", rid |-> 0, cred |-> Absent, id |-> "none",
   user |-> NoUser, saved |-> FALSE]

NoAdminResponse ==
  [rid |-> 0, kind |-> "none", cred |-> Absent, id |-> "none",
   user |-> NoUser, stage |-> "none", status |-> 0, message |-> "",
   auditFailed |-> FALSE]

\* The response to request q, sent by the gate (the error middleware answers
\* with the status and message of the ApiError) or by the handler.
AdminRespond(q, stage, code, msg, failed) ==
  IF stage = "gate"
  THEN [NoAdminResponse EXCEPT !.rid = q.rid, !.cred = q.cred, !.stage = stage,
                               !.status = code, !.message = msg]
  ELSE [rid |-> q.rid, kind |-> q.kind, cred |-> q.cred, id |-> q.id,
        user |-> q.user, stage |-> stage, status |-> code, message |-> msg,
        auditFailed |-> failed]

\* Slot r takes the next request (the lowest idle slot serves it).
AdminFree(r) ==
  /\ areq[r].pc = "idle"
  /\ \A o \in Slots : areq[o].pc = "idle" => o >= r
  /\ arid < MaxAdminReqs

\* A handler that writes the audit entry before it saves the mutation.
NextPc_LogFirst(pc) ==
  CASE pc = "find" -> "log"
    [] pc = "log" -> "save"
    [] pc = "save" -> "done"

\* The order of a privileged handler's awaits: findById, save, logAction,
\* then the response.
NextPc(pc) ==
  CASE pc = "find" -> "save"
    [] pc = "save" -> "log"
    [] pc = "log" -> "done"

\* The document the handler loads: User.findById(id) / Problem.findById(id).
Target(kind, id) ==
  IF kind = "deleteProblem"
  THEN IF problems[id] = "missing" THEN NoUser
       ELSE [id |-> id, isActive |-> problems[id] = "active"]
  ELSE User_findById(id)

\* promoteUser: the checks between findById and save.
promoteUser_check(user, adminId) ==
  IF user = NoUser THEN [status |-> 404, message |-> "User not found"]
  ELSE IF user.role = ADMIN THEN [status |-> 400, message |-> "User is already an admin"]
  ELSE [status |-> 0, message |-> ""]

\* A demoteUser that lets an admin demote their own account.
demoteUser_check_NoSelf(user, adminId) ==
  IF user = NoUser THEN [status |-> 404, message |-> "User not found"]
  ELSE IF user.role = USER THEN [status |-> 400, message |-> "User is already a regular user"]
  ELSE [status |-> 0, message |-> ""]

\* demoteUser: the checks between findById and save.
demoteUser_check(user, adminId) ==
  IF user = NoUser THEN [status |-> 404, message |-> "User not found"]
  ELSE IF user.role = USER THEN [status |-> 400, message |-> "User is already a regular user"]
  ELSE IF user.id = adminId THEN [status |-> 400, message |-> "You cannot demote yourself"]
  ELSE [status |-> 0, message |-> ""]

\* deactivateUser: the checks between findById and save.
deactivateUser_check(user, adminId) ==
  IF user = NoUser THEN [status |-> 404, message |-> "User not found"]
  ELSE IF user.id = adminId THEN [status |-> 400, message |-> "You cannot deactivate your own account"]
  ELSE IF ~user.isActive THEN [status |-> 400, message |-> "User is already deactivated"]
  ELSE [status |-> 0, message |-> ""]

\* activateUser: the checks between findById and save.
activateUser_check(user, adminId) ==
  IF user = NoUser THEN [status |-> 404, message |-> "User not found"]
  ELSE IF user.isActive THEN [status |-> 400, message |-> "User is already active"]
  ELSE [status |-> 0, message |-> ""]

\* deleteProblem: the checks between findById and save.
deleteProblem_check(problem, adminId) ==
  IF problem = NoUser THEN [status |-> 404, message |-> "Problem not found"]
  ELSE IF ~problem.isActive THEN [status |-> 400, message |-> "Problem is already deleted"]
  ELSE [status |-> 0, message |-> ""]

HandlerCheck(kind, doc, adminId) ==
  CASE kind = "promoteUser" -> promoteUser_check(doc, adminId)
    [] kind = "demoteUser" -> demoteUser_check(doc, adminId)
    [] kind = "deactivateUser" -> deactivateUser_check(doc, adminId)
    [] kind = "activateUser" -> activateUser_check(doc, adminId)
    [] kind = "deleteProblem" -> deleteProblem_check(doc, adminId)

\* AdminActionType logged by each handler.
ActionTypeOf(kind) ==
  CASE kind = "promoteUser" -> "promote_user"
    [] kind = "demoteUser" -> "demote_user"
    [] kind = "deactivateUser" -> "deactivate_user"
    [] kind = "activateUser" -> "activate_user"
    [] kind = "deleteProblem" -> "delete_problem"

EntityTypeOf(kind) == IF kind = "deleteProblem" THEN "problem" ELSE "user"

SuccessMessage(kind) ==
  CASE kind = "promoteUser" -> "User promoted to admin successfully"
    [] kind = "demoteUser" -> "User demoted to regular user successfully"
    [] kind = "deactivateUser" -> "User deactivated successfully"
    [] kind = "activateUser" -> "User activated successfully"
    [] kind = "deleteProblem" -> "Problem deleted successfully"

\* user.save() / problem.save(): only the path the handler modified is
\* written to the stored document.
SaveUsers(kind, id) ==
  CASE kind = "promoteUser" -> [users EXCEPT ![id].role = ADMIN]
    [] kind = "demoteUser" -> [users EXCEPT ![id].role = USER]
    [] kind = "deactivateUser" -> [users EXCEPT ![id].isActive = FALSE]
    [] kind = "activateUser" -> [users EXCEPT ![id].isActive = TRUE]
    [] OTHER -> users

SaveProblems(kind, id) ==
  IF kind = "deleteProblem" THEN [problems EXCEPT ![id] = "inactive"] ELSE problems

\* A request to a privileged route arrives: authMiddleware then
\* adminMiddleware (no await between them); the handler starts when both
\* call next().
requireAdmin(r, kind, cred, id) ==
  /\ AdminFree(r)
  /\ arid' = arid + 1
  /\ LET q0 == [IdleAdminReq EXCEPT !.kind = kind, !.rid = arid + 1,
                  !.cred = cred, !.id = id]
         a == authMiddleware(cred)
         q == [q0 EXCEPT !.user = a.user]
         b == adminMiddleware(cred, a.user)
     IN IF a.status # 0
        THEN /\ alast' = AdminRespond(q, "gate", a.status, a.message, FALSE)
             /\ UNCHANGED areq
        ELSE IF b.status # 0
        THEN /\ alast' = AdminRespond(q, "gate", b.status, b.message, FALSE)
             /\ UNCHANGED areq
        ELSE /\ areq' = [areq EXCEPT ![r] = [q EXCEPT !.pc = "find"]]
             /\ UNCHANGED alast
  /\ UNCHANGED <<users, tokens, demoted, adminLog, problems, now>>
  /\ UNCHANGED <<progress, nextId, preq, last, marked, nreq, jwtExpiresIn, adminEmail, client>>

\* GET /api/auth/me: authMiddleware, then the handler answers with req.user.
getMe(r, cred) ==
  /\ AdminFree(r)
  /\ arid' = arid + 1
  /\ LET q0 == [IdleAdminReq EXCEPT !.kind = "getMe", !.rid = arid + 1, !.cred = cred]
         a == authMiddleware(cred)
         q == [q0 EXCEPT !.user = a.user]
     IN alast' = IF a.status # 0
                 THEN AdminRespond(q, "gate", a.status, a.message, FALSE)
                 ELSE AdminRespond(q, "handler", 200, "User profile retrieved", FALSE)
  /\ UNCHANGED <<users, tokens, demoted, adminLog, areq, problems, now>>
  /\ UNCHANGED <<progress, nextId, preq, last, marked, nreq, jwtExpiresIn, adminEmail, client>>

\* POST /api/auth/login with the right password: the account must exist and
\* be active; a token carrying its current role is issued.
login(a) ==
  /\ arid < MaxAdminReqs
  /\ arid' = arid + 1
  /\ LET user == User_findById(a)
         q == [IdleAdminReq EXCEPT !.kind = "login", !.rid = arid + 1, !.id = a]
     IN IF user = NoUser
        THEN /\ alast' = AdminRespond(q, "handler", 401, "Invalid email or password", FALSE)
             /\ UNCHANGED <<tokens, demoted>>
        ELSE IF ~user.isActive
        THEN /\ alast' = AdminRespond(q, "handler", 403,
                           "Your account has been deactivated. Please contact support.", FALSE)
             /\ UNCHANGED <<tokens, demoted>>
        ELSE /\ tokens' = [tokens EXCEPT ![a] = generateToken(a, users[a].email, user.role)]
             /\ demoted' = demoted \ {a}
             /\ alast' = AdminRespond(q, "handler", 200, "Login successful", FALSE)
  /\ UNCHANGED <<users, adminLog, areq, problems, now>>
  /\ UNCHANGED <<progress, nextId, preq, last, marked, nreq, jwtExpiresIn, adminEmail, client>>

\* The _ids the store hands to new accounts, in order of creation.
NewAccounts == <<"u3", "u4", "u5">>
NewId == NewAccounts[Cardinality(DOMAIN users \ UserIds) + 1]

\* An email address as a request spells it, in any letter case, and
\* String.toLowerCase on it.
AnyCase(a) == {<<"email", a>>, <<"EMAIL", a>>}
toLowerCase(email) == <<"email", email[2]>>

\* An email index that admits duplicates.
emailIndex_NotUnique(us, email) == FALSE

\* userSchema.index({email: 1}, {unique: true, ...}): TRUE when inserting an
\* account with this email would violate the index.
emailIndex(us, email) == \E u \in DOMAIN us : us[u].email = email

\* POST /api/auth/register: User.findOne({email: email.toLowerCase()}); 409
\* when an account has that email.
register_findOne(r, email) ==
  /\ AdminFree(r)
  /\ arid' = arid + 1
  /\ LET q == [IdleAdminReq EXCEPT !.kind = "register", !.rid = arid + 1,
                                   !.id = toLowerCase(email)[2]]
     IN IF \E u \in DOMAIN users : users[u].email = toLowerCase(email)
        THEN /\ alast' = AdminRespond(q, "handler", 409,
                           "User with this email already exists", FALSE)
             /\ UNCHANGED areq
        ELSE /\ areq' = [areq EXCEPT ![r] = [q EXCEPT !.pc = "create"]]
             /\ UNCHANGED alast
  /\ UNCHANGED <<users, tokens, demoted, adminLog, problems, now>>
  /\ UNCHANGED <<progress, nextId, preq, last, marked, nreq, jwtExpiresIn, adminEmail, client>>

\* User.create({email: email.toLowerCase(), role: USER, isActive: true}):
\* the insert is checked against the unique email index; a duplicate key
\* reaches errorMiddleware.  On success the token is issued and 201 is sent.
register_create(r) ==
  /\ areq[r].pc = "create" /\ areq[r].kind = "register"
  /\ Cardinality(DOMAIN users \ UserIds) < Len(NewAccounts)
  /\ LET q == areq[r]
         email == Email(q.id)
         id == NewId
     IN IF emailIndex(users, email)
        THEN /\ alast' = AdminRespond(q, "handler", errorMiddleware("E11000"),
                           "email already exists. Please use a different email.", FALSE)
             /\ UNCHANGED <<users, tokens>>
        ELSE /\ users' = [u \in DOMAIN users \cup {id} |->
                          IF u = id
                          THEN [role |-> USER, isActive |-> TRUE, email |-> email,
                                passwordHash |-> PasswordHash(id)]
                          ELSE users[u]]
             /\ tokens' = [u \in DOMAIN tokens \cup {id} |->
                           IF u = id THEN generateToken(id, email, USER) ELSE tokens[u]]
             /\ alast' = AdminRespond(q, "handler", 201, "User registered successfully", FALSE)
  /\ areq' = [areq EXCEPT ![r] = IdleAdminReq]
  /\ UNCHANGED <<demoted, adminLog, arid, problems, now>>
  /\ UNCHANGED <<progress, nextId, preq, last, marked, nreq, jwtExpiresIn, adminEmail, client>>

\* GET /api/problems: optionalAuthMiddleware, then the handler (getProblems)
\* answers; the response records the account the gate attached.
getProblems(r, cred, findOk) ==
  /\ AdminFree(r)
  /\ arid' = arid + 1
  /\ LET q0 == [IdleAdminReq EXCEPT !.kind = "getProblems", !.rid = arid + 1, !.cred = cred]
         a == optionalAuthMiddleware(cred, findOk)
         q == [q0 EXCEPT !.user = a.user]
     IN alast' = IF a.status # 0
                 THEN AdminRespond(q, "gate", a.status, "", FALSE)
                 ELSE AdminRespond(q, "handler", 200, "Problems retrieved successfully", FALSE)
  /\ UNCHANGED <<users, tokens, demoted, adminLog, areq, problems, now>>
  /\ UNCHANGED <<progress, nextId, preq, last, marked, nreq, jwtExpiresIn, adminEmail, client>>

\* A count that overlooks deactivated admins.
countDocuments_ActiveOnly(us, role) ==
  Cardinality({u \in DOMAIN us : us[u].role = role /\ us[u].isActive})

\* User.countDocuments({role}).
countDocuments(us, role) == Cardinality({u \in DOMAIN us : us[u].role = role})

\* initializeAdmin's catch block: the error is logged and the promise
\* resolves, so bootstrap goes on (0: start-up continues, 1: it aborts).
initializeAdmin_catch(err) == 0

\* The outcome of one run of initializeAdmin, in the form of a response.
Startup(q, code, msg) ==
  [NoAdminResponse EXCEPT !.rid = q.rid, !.kind = q.kind, !.id = q.id,
                          !.stage = "startup", !.status = code, !.message = msg]

\* initializeAdmin, run by a starting server: countDocuments({role: ADMIN})
\* and the two early returns that follow it.
initializeAdmin_countDocuments(r) ==
  /\ AdminFree(r)
  /\ arid' = arid + 1
  /\ LET q == [IdleAdminReq EXCEPT !.kind = "initializeAdmin", !.rid = arid + 1,
                                   !.id = adminEmail]
     IN IF countDocuments(users, ADMIN) > 0
        THEN /\ alast' = Startup(q, 0, "Admin user(s) already exist")
             /\ UNCHANGED areq
        ELSE IF adminEmail = ""
        THEN /\ alast' = Startup(q, 0, "No admin credentials provided")
             /\ UNCHANGED areq
        ELSE /\ areq' = [areq EXCEPT ![r] = [q EXCEPT !.pc = "findOne"]]
             /\ UNCHANGED alast
  /\ UNCHANGED <<users, tokens, demoted, adminLog, problems, now>>
  /\ UNCHANGED <<progress, nextId, preq, last, marked, nreq, jwtExpiresIn, adminEmail, client>>

\* User.findOne({email: env.adminEmail.toLowerCase()}): return when the
\* address is taken.
initializeAdmin_findOne(r) ==
  /\ areq[r].pc = "findOne" /\ areq[r].kind = "initializeAdmin"
  /\ IF \E u \in DOMAIN users : users[u].email = Email(areq[r].id)
     THEN /\ alast' = Startup(areq[r], 0, "User with this email already exists")
          /\ areq' = [areq EXCEPT ![r] = IdleAdminReq]
     ELSE /\ areq' = [areq EXCEPT ![r].pc = "save"]
          /\ UNCHANGED alast
  /\ UNCHANGED <<users, tokens, demoted, adminLog, arid, problems, now>>
  /\ UNCHANGED <<progress, nextId, preq, last, marked, nreq, jwtExpiresIn, adminEmail, client>>

\* adminUser.save() with role ADMIN: the insert succeeds, or it throws (a
\* store error when ok = FALSE, a duplicate key on the email index) and the
\* catch block takes over.
initializeAdmin_save(r, ok) ==
  /\ areq[r].pc = "save" /\ areq[r].kind = "initializeAdmin"
  /\ Cardinality(DOMAIN users \ UserIds) < Len(NewAccounts)
  /\ LET q == areq[r]
         email == Email(q.id)
         id == NewId
     IN IF ~ok \/ emailIndex(users, email)
        THEN /\ alast' = Startup(q, initializeAdmin_catch(IF ok THEN "E11000" ELSE "MongoError"),
                                 "Failed to initialize admin user")
             /\ UNCHANGED users
        ELSE /\ users' = [u \in DOMAIN users \cup {id} |->
                          IF u = id
                          THEN [role |-> ADMIN, isActive |-> TRUE, email |-> email,
                                passwordHash |-> PasswordHash(id)]
                          ELSE users[u]]
             /\ alast' = Startup(q, 0, "Admin user created successfully")
  /\ areq' = [areq EXCEPT ![r] = IdleAdminReq]
  /\ UNCHANGED <<tokens, demoted, adminLog, arid, problems, now>>
  /\ UNCHANGED <<progress, nextId, preq, last, marked, nreq, jwtExpiresIn, adminEmail, client>>

\* The handler's findById returns and its checks run.
HandlerFind(r, kind) ==
  /\ areq[r].pc = "find" /\ areq[r].kind = kind
  /\ LET q == areq[r]
         c == HandlerCheck(kind, Target(kind, q.id), q.user.id)
     IN IF c.status # 0
        THEN /\ alast' = AdminRespond(q, "handler", c.status, c.message, FALSE)
             /\ areq' = [areq EXCEPT ![r] = IdleAdminReq]
        ELSE /\ areq' = [areq EXCEPT ![r].pc = NextPc("find")]
             /\ UNCHANGED alast
  /\ UNCHANGED <<users, tokens, demoted, adminLog, arid, problems, now>>
  /\ UNCHANGED <<progress, nextId, preq, last, marked, nreq, jwtExpiresIn, adminEmail, client>>

\* await user.save() / problem.save(): the mutation is committed.
HandlerSave(r, kind) ==
  /\ areq[r].pc = "save" /\ areq[r].kind = kind
  /\ LET q == areq[r] IN
     /\ users' = SaveUsers(kind, q.id)
     /\ problems' = SaveProblems(kind, q.id)
     /\ demoted' = IF kind = "demoteUser" THEN demoted \cup {q.id} ELSE demoted
     /\ IF NextPc("save") = "done"
        THEN /\ alast' = AdminRespond(q, "handler", 200, SuccessMessage(kind), FALSE)
             /\ areq' = [areq EXCEPT ![r] = IdleAdminReq]
        ELSE /\ areq' = [areq EXCEPT ![r].pc = NextPc("save"), ![r].saved = TRUE]
             /\ UNCHANGED alast
  /\ UNCHANGED <<tokens, adminLog, arid, now>>
  /\ UNCHANGED <<progress, nextId, preq, last, marked, nreq, jwtExpiresIn, adminEmail, client>>

\* await AdminLog.logAction(...): the entry is created (ok), or the create
\* rejects and asyncHandler hands the error to errorMiddleware.
HandlerLog(r, kind, ok) ==
  /\ areq[r].pc = "log" /\ areq[r].kind = kind
  /\ LET q == areq[r] IN
     IF ok
     THEN /\ adminLog' = logAction(adminLog, q.rid, q.user.id, ActionTypeOf(kind),
                                   q.id, EntityTypeOf(kind))
          /\ IF NextPc("log") = "done"
             THEN /\ alast' = AdminRespond(q, "handler", 200, SuccessMessage(kind), FALSE)
                  /\ areq' = [areq EXCEPT ![r] = IdleAdminReq]
             ELSE /\ areq' = [areq EXCEPT ![r].pc = NextPc("log")]
                  /\ UNCHANGED alast
     ELSE /\ alast' = AdminRespond(q, "handler", errorMiddleware("MongoError"),
                                   "Internal server error", TRUE)
          /\ areq' = [areq EXCEPT ![r] = IdleAdminReq]
          /\ UNCHANGED adminLog
  /\ UNCHANGED <<users, tokens, demoted, arid, problems, now>>
  /\ UNCHANGED <<progress, nextId, preq, last, marked, nreq, jwtExpiresIn, adminEmail, client>>

\* PUT /api/users/:id/promote
promoteUser_findById(r) == HandlerFind(r, "promoteUser")
promoteUser_save(r) == HandlerSave(r, "promoteUser")
promoteUser_logAction(r, ok) == HandlerLog(r, "promoteUser", ok)

\* PUT /api/users/:id/demote
demoteUser_findById(r) == HandlerFind(r, "demoteUser")
demoteUser_save(r) == HandlerSave(r, "demoteUser")
demoteUser_logAction(r, ok) == HandlerLog(r, "demoteUser", ok)

\* PUT /api/users/:id/deactivate
deactivateUser_findById(r) == HandlerFind(r, "deactivateUser")
deactivateUser_save(r) == HandlerSave(r, "deactivateUser")
deactivateUser_logAction(r, ok) == HandlerLog(r, "deactivateUser", ok)

\* PUT /api/users/:id/activate
activateUser_findById(r) == HandlerFind(r, "activateUser")
activateUser_save(r) == HandlerSave(r, "activateUser")
activateUser_logAction(r, ok) == HandlerLog(r, "activateUser", ok)

\* DELETE /api/problems/:id
deleteProblem_findById(r) == HandlerFind(r, "deleteProblem")
deleteProblem_save(r) == HandlerSave(r, "deleteProblem")
deleteProblem_logAction(r, ok) == HandlerLog(r, "deleteProblem", ok)

\* ------------------------------------------------------------------------
\* Web client: the axios instance, AuthProvider and ProgressProvider
\* ------------------------------------------------------------------------
ledgerVars == <<preq, last, marked, nreq>>
authVars == <<users, tokens, demoted, adminLog, areq, alast, arid, jwtExpiresIn,
              adminEmail>>

\* The calls of the web client, and the URL each one requests (a URL is the
\* sequence of its path segments).
ClientKinds == {"login", "logout", "markCompleted", "unmarkCompleted"}

UrlOf(kind, id) ==
  CASE kind = "login" -> <<"auth", "login">>
    [] kind = "logout" -> <<"auth", "logout">>
    [] kind = "markCompleted" -> <<"progress", id, "complete">>
    [] OTHER -> <<"progress", id>>

\* The body of a response that carries none of the fields the client reads.
NoData == [token |-> NoToken, user |-> "none", completedProblemIds |-> {}]

NoRequest ==
  [pc |-> "idle", kind |-> "none", url |-> <<>>, id |-> "none", cred |-> Absent,
   previousIds |-> {}, status |-> 0, data |-> NoData]

\* The tab after loading with an empty localStorage: initialState of
\* AuthProvider, the empty Set of ProgressProvider, the module variables of
\* api/axios.  expired and acked record history: the credentials of the
\* responses for which 'auth:sessionExpired' was dispatched, and per problem
\* the last acknowledgement the session received.
InitialClient ==
  [token |-> NoToken,
   isSessionExpired |-> FALSE,
   isProcessingLogout |-> FALSE,
   sessionExpiredDispatched |-> FALSE,
   timers |-> {},
   n401 |-> 0,
   user |-> "none",
   isAuthenticated |-> FALSE,
   completedProblemIds |-> {},
   completedIds |-> {},
   requests |-> [r \in Slots |-> NoRequest],
   budget |-> MaxClientReqs,
   expired |-> <<>>,
   acked |-> [p \in ProblemIds |-> "none"]]

\* config.url?.includes('/auth/') of the request interceptor.
isAuthEndpoint_request(url) == Len(url) >= 2 /\ url[1] = "auth"

\* url.includes('/auth/login') || ... '/auth/register' || ... '/auth/logout'
\* of the response interceptor.
isAuthEndpoint(url) ==
  Len(url) >= 2 /\ url[1] = "auth" /\ url[2] \in {"login", "register", "logout"}

\* resetSessionState of api/axios.
resetSessionState(c) ==
  [c EXCEPT !.isSessionExpired = FALSE,
            !.isProcessingLogout = FALSE,
            !.sessionExpiredDispatched = FALSE]

\* initializeProgress: setCompletedIds(new Set(ids)).
initializeProgress(c, ids) == [c EXCEPT !.completedIds = ids]

\* The effect of ProgressProvider, run after AuthProvider stored a new
\* state: the local set is initialised only when the account is
\* authenticated and the list is not empty.
ProgressProvider_useEffect(c) ==
  IF c.isAuthenticated /\ c.completedProblemIds # {}
  THEN initializeProgress(c, c.completedProblemIds)
  ELSE c

\* setState of AuthProvider with a whole new state, followed by the render
\* and the effect that depends on it.
setState(c, user, isAuthenticated, completedProblemIds) ==
  ProgressProvider_useEffect(
    [c EXCEPT !.user = user,
              !.isAuthenticated = isAuthenticated,
              !.completedProblemIds = completedProblemIds,
              !.acked = [p \in ProblemIds |-> "none"]])

\* handleSessionExpired, the listener AuthProvider registers for
\* 'auth:sessionExpired'; dispatchEvent runs it before it returns.
handleSessionExpired(c) ==
  resetSessionState(setState(c, "none", FALSE, {}))

\* The request interceptor: the flag it resets and the header it attaches.
api_interceptors_request(c, url) ==
  [client |-> IF ~isAuthEndpoint_request(url) /\ c.isSessionExpired
                    /\ ~c.isProcessingLogout
              THEN [c EXCEPT !.isSessionExpired = FALSE]
              ELSE c,
   cred |-> IF c.token # NoToken THEN c.token ELSE Absent]

\* The response interceptor on the response of request q: a response below
\* 400 passes; an error is handled when the flags allow it, it is a 401 and
\* the URL is not login, register or logout.
api_interceptors_response(c, q) ==
  IF q.status < 400 THEN c
  ELSE IF c.isProcessingLogout \/ c.isSessionExpired THEN c
  ELSE IF q.status = 401 /\ ~isAuthEndpoint(q.url)
  THEN LET n == c.n401 + 1
           c1 == [c EXCEPT !.isProcessingLogout = TRUE,
                           !.isSessionExpired = TRUE,
                           !.token = NoToken,
                           !.n401 = n]
           c2 == IF ~c1.sessionExpiredDispatched
                 THEN LET d == handleSessionExpired(
                                 [c1 EXCEPT !.sessionExpiredDispatched = TRUE,
                                            !.expired = Append(@, q.cred)])
                      IN [d EXCEPT !.timers = @ \cup {[ms |-> 1000, n |-> n]}]
                 ELSE c1
       IN [c2 EXCEPT !.timers = @ \cup {[ms |-> 500, n |-> n]}]
  ELSE c

\* The callback of setTimeout(..., 500) set by response n runs.
setTimeout_isProcessingLogout(n) ==
  /\ [ms |-> 500, n |-> n] \in client.timers
  /\ \A t \in client.timers : t.ms = 500 => t.n >= n
  /\ client' = [client EXCEPT !.isProcessingLogout = FALSE,
                              !.timers = @ \ {[ms |-> 500, n |-> n]}]
  /\ UNCHANGED <<progress, nextId, now, problems>>
  /\ UNCHANGED ledgerVars
  /\ UNCHANGED authVars

\* The callback of setTimeout(..., 1000) set by response n runs, after the
\* 500 ms callback of the same response.
setTimeout_sessionExpiredDispatched(n) ==
  /\ [ms |-> 1000, n |-> n] \in client.timers
  /\ [ms |-> 500, n |-> n] \notin client.timers
  /\ \A t \in client.timers : t.ms = 1000 => t.n >= n
  /\ client' = [client EXCEPT !.sessionExpiredDispatched = FALSE,
                              !.timers = @ \ {[ms |-> 1000, n |-> n]}]
  /\ UNCHANGED <<progress, nextId, now, problems>>
  /\ UNCHANGED ledgerVars
  /\ UNCHANGED authVars

\* Slot r takes the next call of the tab.
ClientFree(r) ==
  /\ client.budget > 0
  /\ client.requests[r].pc = "idle"
  /\ \A o \in Slots : o < r => client.requests[o].pc # "idle"

\* A mark or unmark of problem p is in flight (the page disables the
\* checkbox of p meanwhile).
Updating(p) ==
  \E o \in Slots : /\ client.requests[o].pc # "idle"
                   /\ client.requests[o].kind \in {"markCompleted", "unmarkCompleted"}
                   /\ client.requests[o].id = p

\* api.post / api.delete: the request interceptor runs and the request
\* leaves with the header it attached.
api_request(c, r, kind, id, previousIds) ==
  LET i == api_interceptors_request(c, UrlOf(kind, id)) IN
  [i.client EXCEPT !.budget = @ - 1,
                   !.requests[r] = [NoRequest EXCEPT !.pc = "sent",
                                                     !.kind = kind,
                                                     !.url = UrlOf(kind, id),
                                                     !.id = id,
                                                     !.cred = i.cred,
                                                     !.previousIds = previousIds]]

\* login of AuthProvider up to its await: the login form is submitted with
\* the password of account a.
AuthProvider_login(r, a) ==
  /\ ClientFree(r)
  /\ ~client.isAuthenticated
  /\ \A o \in Slots : client.requests[o].kind # "login"
  /\ client' = api_request(client, r, "login", a, {})
  /\ UNCHANGED <<progress, nextId, now, problems>>
  /\ UNCHANGED ledgerVars
  /\ UNCHANGED authVars

\* logout of AuthProvider up to its await.
AuthProvider_logout(r) ==
  /\ ClientFree(r)
  /\ client.isAuthenticated
  /\ \A o \in Slots : client.requests[o].kind # "logout"
  /\ client' = api_request(client, r, "logout", "none", {})
  /\ UNCHANGED <<progress, nextId, now, problems>>
  /\ UNCHANGED ledgerVars
  /\ UNCHANGED authVars

\* markCompleted of ProgressProvider up to its await, called by the checkbox
\* of a problem that is shown unchecked: the snapshot, the optimistic add.
ProgressProvider_markCompleted(r, p) ==
  /\ ClientFree(r)
  /\ client.isAuthenticated
  /\ p \notin client.completedIds
  /\ ~Updating(p)
  /\ client' = api_request([client EXCEPT !.completedIds = @ \cup {p}],
                           r, "markCompleted", p, client.completedIds)
  /\ UNCHANGED <<progress, nextId, now, problems>>
  /\ UNCHANGED ledgerVars
  /\ UNCHANGED authVars

\* unmarkCompleted of ProgressProvider up to its await, called by the
\* checkbox of a problem that is shown checked.
ProgressProvider_unmarkCompleted(r, p) ==
  /\ ClientFree(r)
  /\ client.isAuthenticated
  /\ p \in client.completedIds
  /\ ~Updating(p)
  /\ client' = api_request([client EXCEPT !.completedIds = @ \ {p}],
                           r, "unmarkCompleted", p, client.completedIds)
  /\ UNCHANGED <<progress, nextId, now, problems>>
  /\ UNCHANGED ledgerVars
  /\ UNCHANGED authVars

\* UserProgress.distinct('problemId', {userId, status: completed}).
UserProgress_distinct(docs, u) ==
  {d.problemId : d \in {x \in docs : x.userId = u /\ x.status = COMPLETED}}

\* The answer of the server to request q on the collection docs, the
\* request handled in one step: status, body, and the collection it leaves.
\* login is sent with the right password; the routes of /api/progress and
\* /api/auth/logout run authMiddleware first.
Answer(status, data, docs, nid) ==
  [status |-> status, data |-> data, docs |-> docs, nextId |-> nid]

api_auth_login(docs, nid, a) ==
  LET user == User_findById(a) IN
  IF user = NoUser THEN Answer(401, NoData, docs, nid)
  ELSE IF ~user.isActive THEN Answer(403, NoData, docs, nid)
  ELSE Answer(200, [token |-> generateToken(a, users[a].email, user.role),
                    user |-> a,
                    completedProblemIds |-> UserProgress_distinct(docs, a)],
              docs, nid)

api_auth_logout(docs, nid, cred) ==
  LET auth == authMiddleware(cred) IN
  IF auth.status # 0 THEN Answer(auth.status, NoData, docs, nid)
  ELSE Answer(200, NoData, docs, nid)

api_progress_complete(docs, nid, cred, p) ==
  LET auth == authMiddleware(cred) IN
  IF auth.status # 0 THEN Answer(auth.status, NoData, docs, nid)
  ELSE IF problems[p] # "active" THEN Answer(404, NoData, docs, nid)
  ELSE LET upd == markCompleted(now)
           res == findOneAndUpdate(docs, nid, auth.user.id, p, upd.status,
                                   upd.completedAt)
           ins == upsertInsert(docs, nid, auth.user.id, p, upd.status,
                               upd.completedAt)
       IN IF res.found THEN Answer(200, NoData, res.docs, res.nextId)
          ELSE Answer(200, NoData, ins.docs, ins.nextId)

api_progress_delete(docs, nid, cred, p) ==
  LET auth == authMiddleware(cred) IN
  IF auth.status # 0 THEN Answer(auth.status, NoData, docs, nid)
  ELSE LET res == UserProgress_resetProgress(docs, nid, auth.user.id, p)
       IN Answer(200, NoData, res.docs, res.nextId)

\* The server handles the request of slot r and sends its response.
Server(r) ==
  /\ client.requests[r].pc = "sent"
  /\ LET q == client.requests[r]
         ans == CASE q.kind = "login" -> api_auth_login(progress, nextId, q.id)
                  [] q.kind = "logout" -> api_auth_logout(progress, nextId, q.cred)
                  [] q.kind = "markCompleted" ->
                       api_progress_complete(progress, nextId, q.cred, q.id)
                  [] OTHER -> api_progress_delete(progress, nextId, q.cred, q.id)
     IN /\ progress' = ans.docs
        /\ nextId' = ans.nextId
        /\ client' = [client EXCEPT !.requests[r].pc = "answered",
                                    !.requests[r].status = ans.status,
                                    !.requests[r].data = ans.data]
  /\ UNCHANGED <<now, problems>>
  /\ UNCHANGED ledgerVars
  /\ UNCHANGED authVars

\* The response of slot r reaches the tab: the response interceptor runs,
\* and the slot is free for the next call.
Received(r, kind) ==
  /\ client.requests[r].pc = "answered"
  /\ client.requests[r].kind = kind

Settle(c, r) == [c EXCEPT !.requests[r] = NoRequest]

\* login of AuthProvider after its await: on success the token is stored,
\* the session state reset and the new state set; on failure only loading
\* changes.
AuthProvider_login_settle(r) ==
  /\ Received(r, "login")
  /\ LET q == client.requests[r]
         c1 == api_interceptors_response(client, q)
     IN client' = Settle(IF q.status < 400
                         THEN setState(resetSessionState([c1 EXCEPT !.token = q.data.token]),
                                       q.data.user, TRUE, q.data.completedProblemIds)
                         ELSE c1, r)
  /\ UNCHANGED <<progress, nextId, now, problems>>
  /\ UNCHANGED ledgerVars
  /\ UNCHANGED authVars

\* logout of AuthProvider after its await: whatever the answer, the token
\* is removed, the session state reset and the state cleared.
AuthProvider_logout_settle(r) ==
  /\ Received(r, "logout")
  /\ LET q == client.requests[r]
         c1 == api_interceptors_response(client, q)
     IN client' = Settle(setState(resetSessionState([c1 EXCEPT !.token = NoToken]),
                                  "none", FALSE, {}), r)
  /\ UNCHANGED <<progress, nextId, now, problems>>
  /\ UNCHANGED ledgerVars
  /\ UNCHANGED authVars

\* The acknowledgement of a mark or unmark sent in the session that is
\* still open is recorded.
Acknowledge(c, q, st) ==
  IF c.isAuthenticated /\ q.cred = c.token
  THEN [c EXCEPT !.acked[q.id] = st]
  ELSE c

\* markCompleted of ProgressProvider after its await: on failure the
\* snapshot taken before the call is restored.
ProgressProvider_markCompleted_settle(r) ==
  /\ Received(r, "markCompleted")
  /\ LET q == client.requests[r]
         c1 == api_interceptors_response(client, q)
     IN client' = Settle(IF q.status < 400
                         THEN Acknowledge(c1, q, COMPLETED)
                         ELSE [c1 EXCEPT !.completedIds = q.previousIds], r)
  /\ UNCHANGED <<progress, nextId, now, problems>>
  /\ UNCHANGED ledgerVars
  /\ UNCHANGED authVars

\* unmarkCompleted of ProgressProvider after its await.
ProgressProvider_unmarkCompleted_settle(r) ==
  /\ Received(r, "unmarkCompleted")
  /\ LET q == client.requests[r]
         c1 == api_interceptors_response(client, q)
     IN client' = Settle(IF q.status < 400
                         THEN Acknowledge(c1, q, NOT_STARTED)
                         ELSE [c1 EXCEPT !.completedIds = q.previousIds], r)
  /\ UNCHANGED <<progress, nextId, now, problems>>
  /\ UNCHANGED ledgerVars
  /\ UNCHANGED authVars

\* ------------------------------------------------------------------------
\* Specification of the progress ledger
\* ------------------------------------------------------------------------
\* No request has been received; u1 is the bootstrap admin, u2 is an
\* account of either role that may have been deactivated, every account
\* holds the token of a login at time 0, and the token of u0 outlived its
\* account.  The specifications of the ledger and of the authorization core
\* run with JWT_EXPIRES_IN=1s, so that tokens expire within the explored
\* time.
InitAdminVars(u2role, u2active, expiresIn) ==
  /\ jwtExpiresIn = expiresIn
  /\ adminEmail = "u1"
  /\ client = InitialClient
  /\ users = [u \in UserIds |-> [role |-> IF u = "u1" THEN ADMIN ELSE u2role,
                                 isActive |-> IF u = "u1" THEN TRUE ELSE u2active,
                                 email |-> Email(u),
                                 passwordHash |-> PasswordHash(u)]]
  /\ tokens = [a \in AccountIds |->
                generateToken(a, Email(a),
                   IF a = "u1" THEN ADMIN ELSE IF a = "u2" THEN u2role ELSE USER)]
  /\ demoted = {}
  /\ adminLog = <<>>
  /\ areq = [r \in Slots |-> IdleAdminReq]
  /\ alast = NoAdminResponse
  /\ arid = 0

InitLedgerVars(budget) ==
  /\ progress = {}
  /\ nextId = 1
  /\ now = 0
  /\ preq = [r \in Slots |-> IdleReq]
  /\ last = NoResponse
  /\ marked = [pair \in UserIds \X ProblemIds |->
                 [id |-> 0, at |-> Null, n |-> 0, reset |-> FALSE]]
  /\ nreq = budget

Init ==
  /\ InitLedgerVars(MaxUpdates)
  /\ problems \in {f \in [ProblemIds -> {"active", "inactive", "missing"}] :
                     f["p1"] = "active"}
  /\ InitAdminVars(USER, TRUE, <<"1", "s">>)

Next ==
  \/ \E r \in Slots, u \in UserIds, p \in ProblemIds : markComplete_findById(r, u, p)
  \/ \E r \in Slots : markComplete_markCompleted(r)
  \/ \E r \in Slots : markComplete_upsert(r)
  \/ \E r \in Slots, u \in UserIds, p \in ProblemIds, st \in ProgressStatus :
        updateProgress_findById(r, u, p, st)
  \/ \E r \in Slots : updateProgress_findOneAndUpdate(r)
  \/ \E r \in Slots : updateProgress_upsert(r)
  \/ \E r \in Slots, u \in UserIds, p \in ProblemIds : resetProgress(r, u, p)
  \/ \E r \in Slots, u \in UserIds, b \in Batches : batchUpdateProgress_find(r, u, b)
  \/ \E r \in Slots, i \in 1..MaxBatch : batchUpdateProgress_update(r, i)
  \/ \E r \in Slots, i \in 1..MaxBatch : batchUpdateProgress_upsert(r, i)
  \/ \E r \in Slots : batchUpdateProgress_respond(r)
  \/ Tick

Spec == Init /\ [][Next]_vars

\* ------------------------------------------------------------------------
\* Specification of the progress ledger under sequential use: a request is
\* sent only after the previous one was answered
\* ------------------------------------------------------------------------
AllIdle == \A r \in Slots : preq[r].pc = "idle"

InitSerial ==
  /\ InitLedgerVars(MaxSerial)
  /\ problems = [p \in ProblemIds |-> "active"]
  /\ InitAdminVars(USER, TRUE, <<"1", "s">>)

NextSerial ==
  \/ \E r \in Slots, u \in UserIds, p \in ProblemIds :
        AllIdle /\ markComplete_findById(r, u, p)
  \/ \E r \in Slots : markComplete_markCompleted(r)
  \/ \E r \in Slots : markComplete_upsert(r)
  \/ \E r \in Slots, u \in UserIds, p \in ProblemIds, st \in ProgressStatus :
        AllIdle /\ updateProgress_findById(r, u, p, st)
  \/ \E r \in Slots : updateProgress_findOneAndUpdate(r)
  \/ \E r \in Slots : updateProgress_upsert(r)
  \/ \E r \in Slots, u \in UserIds, p \in ProblemIds :
        AllIdle /\ resetProgress(r, u, p)
  \/ Tick

SpecSerial == InitSerial /\ [][NextSerial]_vars

\* ------------------------------------------------------------------------
\* Specification of the authorization core
\* ------------------------------------------------------------------------
NextAdmin ==
  \/ \E r \in Slots, k \in UserKinds, c \in Credentials, id \in AccountIds :
        requireAdmin(r, k, c, id)
  \/ \E r \in Slots, c \in Credentials, id \in ProblemIds :
        requireAdmin(r, "deleteProblem", c, id)
  \/ \E r \in Slots, c \in Credentials : getMe(r, c)
  \/ \E a \in AccountIds : login(a)
  \/ \E r \in Slots : promoteUser_findById(r)
  \/ \E r \in Slots : promoteUser_save(r)
  \/ \E r \in Slots, ok \in BOOLEAN : promoteUser_logAction(r, ok)
  \/ \E r \in Slots : demoteUser_findById(r)
  \/ \E r \in Slots : demoteUser_save(r)
  \/ \E r \in Slots, ok \in BOOLEAN : demoteUser_logAction(r, ok)
  \/ \E r \in Slots : deactivateUser_findById(r)
  \/ \E r \in Slots : deactivateUser_save(r)
  \/ \E r \in Slots, ok \in BOOLEAN : deactivateUser_logAction(r, ok)
  \/ \E r \in Slots : activateUser_findById(r)
  \/ \E r \in Slots : activateUser_save(r)
  \/ \E r \in Slots, ok \in BOOLEAN : activateUser_logAction(r, ok)
  \/ \E r \in Slots : deleteProblem_findById(r)
  \/ \E r \in Slots : deleteProblem_save(r)
  \/ \E r \in Slots, ok \in BOOLEAN : deleteProblem_logAction(r, ok)
  \/ Tick

InitAdmin ==
  /\ InitLedgerVars(MaxUpdates)
  /\ problems = [p \in ProblemIds |-> IF p = "p1" THEN "active" ELSE "missing"]
  /\ \E ro \in UserRole, act \in BOOLEAN : InitAdminVars(ro, act, <<"1", "s">>)

SpecAdmin == InitAdmin /\ [][NextAdmin]_vars

\* ------------------------------------------------------------------------
\* Specification of token issuance and verification: the process starts
\* with any explored value of JWT_EXPIRES_IN
\* ------------------------------------------------------------------------
InitToken ==
  /\ InitLedgerVars(MaxUpdates)
  /\ problems = [p \in ProblemIds |-> "active"]
  /\ \E v \in Strings : InitAdminVars(USER, FALSE, env_jwtExpiresIn(v))

NextToken ==
  \/ \E a \in AccountIds : login(a)
  \/ \E r \in Slots, a \in {"u2", "u3"} : \E e \in AnyCase(a) : register_findOne(r, e)
  \/ \E r \in Slots : register_create(r)
  \/ \E r \in Slots, c \in Credentials : getMe(r, c)
  \/ \E r \in Slots, c \in Credentials, ok \in BOOLEAN : getProblems(r, c, ok)
  \/ Tick

SpecToken == InitToken /\ [][NextToken]_vars

\* ------------------------------------------------------------------------
\* Specification of server start-up: initializeAdmin runs against any
\* population of up to two accounts, possibly in two starting servers at
\* once and next to registrations
\* ------------------------------------------------------------------------
Populations ==
  UNION {[d -> [role : UserRole, isActive : BOOLEAN]] : d \in SUBSET UserIds}

InitBoot ==
  /\ InitLedgerVars(MaxUpdates)
  /\ problems = [p \in ProblemIds |-> "active"]
  /\ jwtExpiresIn = <<"7", "d">>
  /\ adminEmail \in {"", "u2", "u3"}
  /\ client = InitialClient
  /\ \E f \in Populations :
        users = [u \in DOMAIN f |-> [role |-> f[u].role, isActive |-> f[u].isActive,
                                     email |-> Email(u), passwordHash |-> PasswordHash(u)]]
  /\ tokens = [a \in AccountIds |-> NoToken]
  /\ demoted = {}
  /\ adminLog = <<>>
  /\ areq = [r \in Slots |-> IdleAdminReq]
  /\ alast = NoAdminResponse
  /\ arid = 0

NextBoot ==
  \/ \E r \in Slots : initializeAdmin_countDocuments(r)
  \/ \E r \in Slots : initializeAdmin_findOne(r)
  \/ \E r \in Slots, ok \in BOOLEAN : initializeAdmin_save(r, ok)
  \/ \E r \in Slots, a \in {"u2", "u3"} : \E e \in AnyCase(a) : register_findOne(r, e)
  \/ \E r \in Slots : register_create(r)

SpecBoot == InitBoot /\ [][NextBoot]_vars

\* ------------------------------------------------------------------------
\* Specification of the web client: one tab and the server that answers it
\* ------------------------------------------------------------------------
InitClient ==
  /\ InitLedgerVars(MaxUpdates)
  /\ problems \in {f \in [ProblemIds -> {"active", "inactive", "missing"}] :
                     f["p1"] = "active"}
  /\ InitAdminVars(USER, TRUE, <<"1", "s">>)

NextClient ==
  \/ \E r \in Slots, a \in AccountIds : AuthProvider_login(r, a)
  \/ \E r \in Slots : AuthProvider_login_settle(r)
  \/ \E r \in Slots : AuthProvider_logout(r)
  \/ \E r \in Slots : AuthProvider_logout_settle(r)
  \/ \E r \in Slots, p \in ProblemIds : ProgressProvider_markCompleted(r, p)
  \/ \E r \in Slots : ProgressProvider_markCompleted_settle(r)
  \/ \E r \in Slots, p \in ProblemIds : ProgressProvider_unmarkCompleted(r, p)
  \/ \E r \in Slots : ProgressProvider_unmarkCompleted_settle(r)
  \/ \E r \in Slots : Server(r)
  \/ \E n \in 1..MaxClientReqs : setTimeout_isProcessingLogout(n)
  \/ \E n \in 1..MaxClientReqs : setTimeout_sessionExpiredDispatched(n)
  \/ Tick

SpecClient == InitClient /\ [][NextClient]_vars

\* ------------------------------------------------------------------------
\* Properties
\* ------------------------------------------------------------------------
TypeOK ==
  /\ nextId \in 1..(MaxDocs + 1)
  /\ now \in 0..MaxClock

\* The (account, problem) pair a single-problem response is about.
LastUser == last.userId
LastProblem == last.updates[1].problemId

\* C1: for every (account, problem) pair at most one progress record exists,
\* in every state reachable by interleaving mark-complete, update-status,
\* reset and batch-update requests.
C1_AtMostOneRecordPerPair ==
  \A u \in UserIds, p \in ProblemIds : Cardinality(Matching(progress, u, p)) <= 1

\* C1 witness: two requests raced on one pair, both were answered, and the
\* pair has its record.
C1_Witness ==
  /\ AllIdle
  /\ last.raced
  /\ Cardinality(Matching(progress, LastUser, LastProblem)) = 1

\* C2: a mark-complete that ran concurrently with another mark-complete of
\* the same pair is answered with success (never the 409 of a duplicate
\* key), and once both are answered the pair has exactly one record, whose
\* status is completed.
C2_ConcurrentMarkComplete ==
  (last.kind = "markComplete" /\ last.raced) =>
     /\ last.status = 200
     /\ AllIdle =>
          /\ Cardinality(Matching(progress, LastUser, LastProblem)) = 1
          /\ \A d \in Matching(progress, LastUser, LastProblem) : d.status = COMPLETED

\* C2 witness: the second of two racing mark-completes has been answered
\* with success, after the first.
C2_Witness ==
  /\ last.kind = "markComplete" /\ last.raced
  /\ last.status = 200 /\ last.nth = 2
  /\ AllIdle

\* C9: every successful mark-complete answers with a completed record, and
\* the record is the one the first mark-complete of that pair returned (same
\* _id); the pair's stored record is completed right after each call.
C9_MarkCompleteIdempotent ==
  (last.kind = "markComplete" /\ last.status = 200) =>
     /\ last.doc.status = COMPLETED
     /\ last.doc.id = marked[<<LastUser, LastProblem>>].id
     /\ last.doc.userId = LastUser /\ last.doc.problemId = LastProblem

\* C9 witness: a second mark-complete of a pair, issued after the first one
\* had been answered, has returned.
C9_Witness ==
  /\ last.kind = "markComplete" /\ last.status = 200
  /\ last.nth = 2 /\ ~last.raced

\* C10: a reset of a pair that has no record answers 200 "No progress to
\* reset" and leaves the pair without a record.
C10_ResetWithoutRecord ==
  [][\A r \in Slots, u \in UserIds, p \in ProblemIds :
       (resetProgress(r, u, p) /\ Matching(progress, u, p) = {}) =>
          /\ last'.status = 200
          /\ last'.message = "No progress to reset"
          /\ last'.doc = NoDoc
          /\ Matching(progress', u, p) = {}]_vars

\* C10 witness: a reset has answered "No progress to reset".
C10_Witness ==
  /\ last.kind = "resetProgress"
  /\ last.message = "No progress to reset"
  /\ Matching(progress, LastUser, LastProblem) = {}

\* C11: every progress record has a completedAt timestamp exactly when its
\* status is completed; a write of not_started leaves completedAt null
\* whatever it was before.
C11_CompletedAtIffCompleted ==
  \A d \in progress : (d.completedAt # Null) <=> (d.status = COMPLETED)

\* C11 witness: a record that a mark-complete had completed was set back to
\* not_started by a reset, an update or a batch and its completedAt is null.
C11_Witness ==
  \E d \in progress :
     /\ marked[<<d.userId, d.problemId>>].n > 0
     /\ d.status = NOT_STARTED /\ d.completedAt = Null
     /\ last.kind \in {"resetProgress", "updateProgress", "batchUpdateProgress"}
     /\ last.userId = d.userId

\* C12: under sequential use no record is ever removed or replaced; every
\* mark-complete returns the stored record of the pair, completed, with the
\* _id the first mark-complete returned and a completedAt not earlier than
\* the first one; a reset that finds the record returns that same record,
\* not_started with completedAt null.
C12_SameRecordThroughout ==
  [][/\ \A d \in progress : \E e \in progress' :
          e.id = d.id /\ e.userId = d.userId /\ e.problemId = d.problemId
     /\ (last'.kind = "markComplete" /\ last'.status = 200) =>
          LET m == marked'[<<last'.userId, last'.updates[1].problemId>>] IN
            /\ last'.doc.status = COMPLETED
            /\ last'.doc.completedAt # Null
            /\ last'.doc.id = m.id
            /\ last'.doc.completedAt >= m.at
     /\ \A r \in Slots, u \in UserIds, p \in ProblemIds :
          (resetProgress(r, u, p) /\ Matching(progress, u, p) # {}) =>
             /\ last'.doc.status = NOT_STARTED
             /\ last'.doc.completedAt = Null
             /\ \A d \in Matching(progress, u, p) : last'.doc.id = d.id
             /\ last'.doc \in progress']_vars

\* C12 witness: mark-complete, reset, mark-complete of one pair have been
\* answered in this order and the second completedAt is later than the first.
C12_Witness ==
  /\ last.kind = "markComplete" /\ last.status = 200 /\ last.nth = 2
  /\ marked[<<LastUser, LastProblem>>].reset
  /\ last.doc.id = marked[<<LastUser, LastProblem>>].id
  /\ last.doc.completedAt > marked[<<LastUser, LastProblem>>].at

\* C13: a batch-update that references a problem which does not exist or is
\* inactive is answered 400 as a whole; the call starts no write and the
\* collection is left as it was.
C13_BatchRejectedAsAWhole ==
  [][\A r \in Slots, u \in UserIds, b \in Batches :
       (/\ batchUpdateProgress_find(r, u, b)
        /\ \E i \in DOMAIN b : problems[b[i].problemId] # "active")
          => /\ last'.kind = "batchUpdateProgress"
             /\ last'.status = 400
             /\ last'.message = "One or more problems not found"
             /\ preq' = preq
             /\ progress' = progress]_vars

\* C13 witness: a batch of one valid and one invalid problem was rejected.
C13_Witness ==
  /\ last.kind = "batchUpdateProgress" /\ last.status = 400
  /\ Len(last.updates) = 2
  /\ \E i, j \in DOMAIN last.updates :
        /\ problems[last.updates[i].problemId] = "active"
        /\ problems[last.updates[j].problemId] # "active"
  /\ Matching(progress, last.userId, last.updates[1].problemId) = {}
  /\ Matching(progress, last.userId, last.updates[2].problemId) = {}

Others(docs, u) == {d \in docs : d.userId # u}

\* C15: a step of a progress operation issued by account A leaves the
\* records of every other account as they were, and the collection changes
\* only in such steps.
C15_OnlyOwnRecords ==
  [][/\ \A r \in Slots, u \in UserIds, p \in ProblemIds :
          resetProgress(r, u, p) => Others(progress', u) = Others(progress, u)
     /\ \A r \in Slots :
          (preq[r].pc # "idle" /\ preq'[r] # preq[r] /\ progress' # progress)
             => Others(progress', preq[r].userId) = Others(progress, preq[r].userId)
     /\ progress' # progress
          => \/ \E r \in Slots, u \in UserIds, p \in ProblemIds : resetProgress(r, u, p)
             \/ \E r \in Slots : preq[r].pc # "idle" /\ preq'[r] # preq[r]]_vars

\* C15 witness: two accounts have a record of the same problem, and the
\* last operation changed the record of its own account only.
C15_Witness ==
  \E d \in progress, e \in progress :
     /\ d.userId # e.userId /\ d.problemId = e.problemId
     /\ d.status = COMPLETED /\ e.status = NOT_STARTED
     /\ last.userId = e.userId /\ last.status = 200
     /\ last.kind \in {"resetProgress", "updateProgress", "batchUpdateProgress"}

\* ------------------------------------------------------------------------
\* Properties of the authorization core
\* ------------------------------------------------------------------------
Targets == AccountIds \cup ProblemIds

\* The request that arrives in this step was answered by the gate with code.
GateRejects(code) ==
  /\ alast'.rid = arid + 1
  /\ alast'.stage = "gate"
  /\ alast'.status = code

\* What the gate can observe about a credential in the current state.
Verified(c) == c # Absent /\ c # Malformed /\ now < c.exp
Found(c) == Verified(c) /\ c.userId \in DOMAIN users
Active(c) == Found(c) /\ users[c.userId].isActive

\* C3 as stated: every request to an admin-only endpoint that carries the
\* unexpired token of an account demoted since the token was issued is
\* answered 403 by the gate.
C3_Original ==
  [][\A r \in Slots, k \in AdminKinds, c \in Credentials, id \in Targets :
       (requireAdmin(r, k, c, id) /\ c.userId \in demoted /\ Verified(c))
          => GateRejects(403)]_vars

\* C3 amended: such a request is answered 403 whenever, at the gate's
\* re-fetch, the account is active and its stored role is still user; the
\* role claim of the token plays no part.
C3_DemotedTokenForbidden ==
  [][\A r \in Slots, k \in AdminKinds, c \in Credentials, id \in Targets :
       (/\ requireAdmin(r, k, c, id)
        /\ c.userId \in demoted /\ Verified(c)
        /\ users[c.userId].isActive /\ users[c.userId].role = USER)
          => GateRejects(403)]_vars

\* C3 witness: a token that still says admin, held by an account demoted
\* after it was issued, has been refused with 403.
C3_Witness ==
  /\ alast.stage = "gate" /\ alast.status = 403
  /\ alast.cred.role = ADMIN
  /\ alast.cred.userId \in demoted
  /\ \E i \in DOMAIN adminLog : /\ adminLog[i].actionType = "demote_user"
                                /\ adminLog[i].entityId = alast.cred.userId

\* C4: behind the authentication gate a handler starts only for a verified
\* token whose account the same request found and found active; a request
\* with the unexpired token of a missing or inactive account is answered
\* 401 by the gate.
C4_HandlerOnlyForActiveAccount ==
  [][\A r \in Slots, k \in AdminKinds \cup {"getMe"}, c \in Credentials, id \in Targets :
       ((k \in AdminKinds /\ requireAdmin(r, k, c, id)) \/ (k = "getMe" /\ getMe(r, c)))
          => /\ (\/ areq'[r].pc = "find"
                 \/ (alast'.rid = arid + 1 /\ alast'.stage = "handler"))
                => Active(c)
             /\ (Verified(c) /\ ~Active(c)) => GateRejects(401)]_vars

\* C4 witness: an account was deactivated and a later request with its
\* token was turned away with 401.
C4_Witness ==
  /\ alast.stage = "gate" /\ alast.status = 401
  /\ alast.message = "Your account has been deactivated. Please contact support."
  /\ \E i \in DOMAIN adminLog : /\ adminLog[i].actionType = "deactivate_user"
                                /\ adminLog[i].entityId = alast.cred.userId

\* C5: on an admin-only endpoint the answer is 403 exactly when the token
\* verified, the account exists and is active and its stored role is not
\* admin; a missing or unverifiable token, a missing account and an inactive
\* account are answered 401; no privileged handler answers 403.
C5_ForbiddenVersusUnauthorized ==
  [][/\ \A r \in Slots, k \in AdminKinds, c \in Credentials, id \in Targets :
          requireAdmin(r, k, c, id)
             => /\ GateRejects(403) <=> (Active(c) /\ users[c.userId].role # ADMIN)
                /\ ~Active(c) => GateRejects(401)
     /\ (alast'.kind \in AdminKinds /\ alast'.stage = "handler") => alast'.status # 403]_vars

\* C5 witness: the gate has answered 403 to an active non-admin account.
C5_Witness ==
  /\ alast.stage = "gate" /\ alast.status = 403
  /\ users[alast.cred.userId].isActive

\* C6: a promote request answered with success has exactly one audit entry,
\* whose actor is the requesting admin, whose entity is the promoted account
\* and whose action type is promote_user.
C6_PromoteAudited ==
  (alast.kind = "promoteUser" /\ alast.status = 200) =>
     LET es == {i \in DOMAIN adminLog : adminLog[i].rid = alast.rid} IN
       /\ Cardinality(es) = 1
       /\ \A i \in es : /\ adminLog[i].adminId = alast.cred.userId
                        /\ adminLog[i].entityId = alast.id
                        /\ adminLog[i].actionType = "promote_user"
                        /\ adminLog[i].entityType = "user"

\* C6 witness: a promote has been answered with success.
C6_Witness ==
  /\ alast.kind = "promoteUser" /\ alast.status = 200
  /\ users[alast.id].role = ADMIN

\* C7 as stated: a privileged request whose audit append failed after the
\* mutation was saved is still answered with the action's success.
C7_AuditFailureStillSuccess ==
  alast.auditFailed => alast.status = 200

\* C8: the audit append of a privileged handler runs only after the
\* handler's mutation was saved, and the append, failing or not, changes no
\* account and no problem.
C8_AuditAfterSaveNoRollback ==
  [][/\ \A r \in Slots :
          (areq[r].pc = "log" /\ areq'[r].pc # "log")
             => /\ areq[r].saved
                /\ users' = users
                /\ problems' = problems
     /\ adminLog' # adminLog
          => \E r \in Slots : areq[r].pc = "log" /\ areq[r].saved]_vars

\* C8 witness: the audit append of a demotion failed and the account is
\* still demoted.
C8_Witness ==
  /\ alast.kind = "demoteUser" /\ alast.auditFailed
  /\ users[alast.id].role = USER

\* ------------------------------------------------------------------------
\* Properties of token issuance and verification
\* ------------------------------------------------------------------------
TokenExpired == "Token has expired. Please login again."
TokenInvalid == "Invalid token. Please login again."

\* C16: a request whose token has exp equal to now or earlier is rejected as
\* expired (not as invalid); a token whose exp is one second or more after
\* now passes verification.
C16_ExpiryBoundary ==
  [][\A r \in Slots, c \in Credentials :
       (getMe(r, c) /\ c # Absent /\ c # Malformed)
          => /\ c.exp <= now => (GateRejects(401) /\ alast'.message = TokenExpired)
             /\ c.exp >= now + 1 => alast'.message \notin {TokenExpired, TokenInvalid}]_vars

\* C16 witness: a token was presented at the very second of its exp and was
\* rejected as expired.
C16_Witness ==
  /\ alast.stage = "gate" /\ alast.status = 401
  /\ alast.message = TokenExpired
  /\ alast.cred.exp = now

\* The number a string of decimal digits denotes, by positional notation.
RECURSIVE Pow10(_)
Pow10(k) == IF k = 0 THEN 1 ELSE 10 * Pow10(k - 1)

RECURSIVE Decimal(_, _)
Decimal(ds, i) ==
  IF i > Len(ds) THEN 0
  ELSE DigitValue(ds[i]) * Pow10(Len(ds) - i) + Decimal(ds, i + 1)

\* The lifetime C17 states for the duration string str.
Lifetime(str) ==
  LET k == Len(str) - 1 IN
  IF k >= 1 /\ (\A i \in 1..k : str[i] \in Digits) /\ str[k + 1] \in {"d", "h", "m", "s"}
  THEN Decimal(SubSeq(str, 1, k), 1) *
         (CASE str[k + 1] = "d" -> 86400 [] str[k + 1] = "h" -> 3600
            [] str[k + 1] = "m" -> 60 [] str[k + 1] = "s" -> 1)
  ELSE 604800

C18_TokenPayload ==
  \A a \in DOMAIN tokens :
     tokens[a] # NoToken =>
        /\ DOMAIN tokens[a] = {"userId", "email", "role", "iat", "exp"}
        /\ tokens[a].userId = a
        /\ tokens[a].email = (IF a \in DOMAIN users THEN users[a].email ELSE Email(a))
        /\ tokens[a].role \in UserRole
        /\ \A u \in DOMAIN users : tokens[a].email # users[u].passwordHash

\* C18 witness: a login during the run, which loaded the account with its
\* hash, issued a token.
C18_Witness ==
  /\ alast.kind = "login" /\ alast.status = 200
  /\ users[alast.id].passwordHash = PasswordHash(alast.id)
  /\ tokens[alast.id].iat = now /\ now > 0

\* C19 as stated: the response of the authentication gate to a credential
\* that is absent, malformed or expired has the status and the message that
\* any other such credential would get.
C19_UniformRejection ==
  [][\A r \in Slots, c1 \in Credentials :
       (getMe(r, c1) /\ ~Verified(c1))
          => \A c2 \in Credentials :
                ~Verified(c2) => /\ authMiddleware(c2).status = alast'.status
                                 /\ authMiddleware(c2).message = alast'.message]_vars

\* C20: the optional gate answers no request itself and calls next() once;
\* the handler runs for every credential, also when the account lookup
\* fails, and a request has an account attached only if its token verified,
\* the lookup succeeded and the account exists and is active.
C20_OptionalAuthNeverRejects ==
  [][\A r \in Slots, c \in Credentials, ok \in BOOLEAN :
       getProblems(r, c, ok)
          => /\ optionalAuthMiddleware(c, ok).status = 0
             /\ optionalAuthMiddleware(c, ok).nexts = 1
             /\ alast'.rid = arid + 1
             /\ alast'.stage = "handler" /\ alast'.status = 200
             /\ alast'.user # NoUser
                  => (ok /\ Active(c) /\ alast'.user.id = c.userId)]_vars

\* C20 witness: a request with the unexpired token of a deactivated account
\* went through the optional gate as anonymous.
C20_Witness ==
  /\ alast.kind = "getProblems" /\ alast.status = 200
  /\ alast.user = NoUser
  /\ alast.cred.userId \in DOMAIN users
  /\ ~users[alast.cred.userId].isActive
  /\ now < alast.cred.exp

\* ------------------------------------------------------------------------
\* Properties of the audit log and of account management
\* ------------------------------------------------------------------------
\* C21: the audit log only grows: every step leaves the entries it found in
\* place and unchanged, and adds at most one at the end.
C21_AuditAppendOnly ==
  [][/\ Len(adminLog') >= Len(adminLog)
     /\ Len(adminLog') <= Len(adminLog) + 1
     /\ SubSeq(adminLog', 1, Len(adminLog)) = adminLog]_vars

\* C21 witness: the log holds two entries about the same account.
C21_Witness ==
  /\ Len(adminLog) = 2
  /\ adminLog[1].entityId = adminLog[2].entityId
  /\ adminLog[1].rid # adminLog[2].rid

\* C22: at most one account exists per lower-cased email, and a registration
\* whose email is in use, found by the lookup or by the unique index at the
\* insert, is answered 409 and creates no account.
C22_EmailUnique ==
  [][/\ \A u, v \in DOMAIN users' : users'[u].email = users'[v].email => u = v
     /\ \A u \in DOMAIN users' : users'[u].email = toLowerCase(users'[u].email)
     /\ \A r \in Slots, a \in {"u2", "u3"} : \A e \in AnyCase(a) :
          (register_findOne(r, e) /\ \E u \in DOMAIN users : users[u].email = Email(a))
             => (alast'.status = 409 /\ users' = users /\ areq' = areq)
     /\ \A r \in Slots :
          (register_create(r) /\ \E u \in DOMAIN users : users[u].email = Email(areq[r].id))
             => (alast'.status = 409 /\ users' = users)]_vars

\* C22 witness: two registrations of one email ran concurrently; one created
\* the account, the other met the unique index and was answered 409.
C22_Witness ==
  /\ alast.kind = "register" /\ alast.status = 409
  /\ alast.message = "email already exists. Please use a different email."
  /\ Cardinality({u \in DOMAIN users : users[u].email = Email(alast.id)}) = 1

\* C23: a run of initializeAdmin that finds an account with the admin role
\* returns at once; no step of initializeAdmin changes an existing account,
\* it adds at most one account, which is an active admin, and every run
\* ends with start-up continuing.
C23_BootstrapAdmin ==
  [][/\ \A r \in Slots :
          (initializeAdmin_countDocuments(r) /\ \E u \in DOMAIN users : users[u].role = ADMIN)
             => (users' = users /\ areq' = areq /\ alast'.kind = "initializeAdmin")
     /\ \A r \in Slots :
          (areq[r].kind = "initializeAdmin" /\ areq'[r] # areq[r])
             => /\ \A u \in DOMAIN users : u \in DOMAIN users' /\ users'[u] = users[u]
                /\ Cardinality(DOMAIN users' \ DOMAIN users) <= 1
                /\ \A u \in DOMAIN users' \ DOMAIN users :
                      users'[u].role = ADMIN /\ users'[u].isActive
     /\ alast'.kind = "initializeAdmin" => alast'.status = 0]_vars

\* C23 witness: a start-up created the admin and the next run of
\* initializeAdmin found it and returned.
C23_Witness ==
  /\ alast.kind = "initializeAdmin"
  /\ alast.message = "Admin user(s) already exist"
  /\ \E u \in DOMAIN users \ UserIds : users[u].role = ADMIN
  /\ Cardinality({u \in DOMAIN users : users[u].role = ADMIN}) = 1

\* C24: a demote or deactivate whose target is the requesting admin is
\* answered 400 when its lookup returns, without a write to the account and
\* without an audit entry; no demote or deactivate entry ever names the same
\* account as actor and as entity.
C24_NoSelfDemoteOrDeactivate ==
  [][/\ \A r \in Slots :
          ((demoteUser_findById(r) \/ deactivateUser_findById(r))
             /\ areq[r].id = areq[r].user.id)
             => /\ alast'.rid = areq[r].rid
                /\ alast'.status = 400
                /\ users' = users
                /\ adminLog' = adminLog
                /\ areq'[r] = IdleAdminReq
     /\ \A i \in DOMAIN adminLog' :
          adminLog'[i].actionType \in {"demote_user", "deactivate_user"}
             => adminLog'[i].adminId # adminLog'[i].entityId]_vars

\* C24 witness: an active admin asked to demote their own account and was
\* answered 400.
C24_Witness ==
  /\ alast.kind = "demoteUser" /\ alast.status = 400
  /\ alast.message = "You cannot demote yourself"
  /\ alast.id = alast.cred.userId
  /\ users[alast.id].role = ADMIN /\ users[alast.id].isActive

\* C25 as stated: a promote writes the role only while the stored role is
\* user and a demote only while it is admin, so in the audit log the promote
\* and demote entries of an account alternate.
C25_PromoteDemoteAlternate ==
  [][/\ \A r \in Slots : promoteUser_save(r) => users[areq[r].id].role = USER
     /\ \A r \in Slots : demoteUser_save(r) => users[areq[r].id].role = ADMIN
     /\ \A i, j \in DOMAIN adminLog' :
          (/\ i < j
           /\ adminLog'[i].entityId = adminLog'[j].entityId
           /\ adminLog'[i].actionType \in {"promote_user", "demote_user"}
           /\ adminLog'[i].actionType = adminLog'[j].actionType)
             => \E k \in (i + 1)..(j - 1) :
                   /\ adminLog'[k].entityId = adminLog'[i].entityId
                   /\ adminLog'[k].actionType \in {"promote_user", "demote_user"}
                   /\ adminLog'[k].actionType # adminLog'[i].actionType]_vars

\* C26 as stated: in every reachable state some active account has the
\* admin role.
C26_AnActiveAdminRemains ==
  \E u \in DOMAIN users : users[u].role = ADMIN /\ users[u].isActive

\* ------------------------------------------------------------------------
\* Properties of the batch endpoint
\* ------------------------------------------------------------------------
\* C27 as stated: a batch is answered 'One or more problems not found' only
\* if one of the problems it names is missing or inactive; a batch whose
\* problems are all active, one that names a problem twice included, is
\* accepted and goes on to its updates.
C27_BatchRejectedOnlyForMissingProblem ==
  [][\A r \in Slots, u \in UserIds, b \in Batches :
       (/\ batchUpdateProgress_find(r, u, b)
        /\ \A i \in DOMAIN b : problems[b[i].problemId] = "active")
          => /\ preq'[r].pc = "batch"
             /\ preq'[r].updates = b
             /\ last' = last]_vars

\* ------------------------------------------------------------------------
\* Properties of the web client
\* ------------------------------------------------------------------------
\* C28 as stated: for the requests that were in flight with one token and
\* each came back with 401, 'auth:sessionExpired' is dispatched at most
\* once, whatever the order of the responses and of the timers.
C28_SessionExpiredOncePerBurst ==
  \A i, j \in DOMAIN client.expired :
     i # j => client.expired[i] # client.expired[j]

\* No mark or unmark of the tab is in flight.
AllSettled ==
  \A r \in Slots : client.requests[r].kind \notin {"markCompleted", "unmarkCompleted"}

\* C29 as stated: a failed mark or unmark reverts its own optimistic
\* change and leaves the other problems of the local set as they were, and
\* once every mark and unmark has settled a problem the session received an
\* acknowledgement for is in the local set if and only if the last
\* acknowledgement was a completion.
C29_FailureRevertsOwnChangeOnly ==
  [][/\ \A r \in Slots :
          (/\ ProgressProvider_markCompleted_settle(r)
                \/ ProgressProvider_unmarkCompleted_settle(r)
           /\ client.requests[r].status >= 400)
             => /\ client'.completedIds \ {client.requests[r].id}
                      = client.completedIds \ {client.requests[r].id}
                /\ client.requests[r].id \in client'.completedIds
                      <=> client.requests[r].id \in client.requests[r].previousIds
     /\ (AllSettled' /\ client'.isAuthenticated)
          => \A p \in ProblemIds :
                /\ client'.acked[p] = COMPLETED => p \in client'.completedIds
                /\ client'.acked[p] = NOT_STARTED => p \notin client'.completedIds]_vars

\* C30 as stated: when a login succeeds, the local completed set becomes
\* exactly the set of identifiers the server returned for the account,
\* whatever logins, logouts and session expiries came before.
C30_LoginReplacesCompletedSet ==
  [][\A r \in Slots :
       (AuthProvider_login_settle(r) /\ client.requests[r].status = 200)
          => /\ client'.isAuthenticated
             /\ client'.user = client.requests[r].id
             /\ client'.completedIds = client.requests[r].data.completedProblemIds]_vars

====
